---- MODULE Spec2Model ----
(***************************************************************************)
(* A model of the SSH aquarium server (Go implementation):                 *)
(*   - aquarium.Manager   (connections, fish table, terminal config,       *)
(*                         animation loop, mouse clicks)                   *)
(*   - aquarium.Fish      (Update, Render, CheckCollision, OnClick)        *)
(*   - aquarium.UpdateBuffer                                               *)
(*   - connection.Handler (Start, Close, terminal detection, image upload) *)
(*                                                                         *)
(* Numbers.  The Go code computes positions and velocities in float64.     *)
(* Here a position is an integer number of sub-pixels (SubPx per pixel)    *)
(* and time advances in units of 1/9.6 s, so that per time unit the bob    *)
(* phase advances by half a step (BobbingFrequency = 4.8 per second) and a *)
(* bubble rises by 25 pixels (BubbleSpeed = 240 pixels per second).        *)
(* int(x) of the Go code is truncation toward zero of sub-pixels to        *)
(* pixels, and % is Go's truncated remainder.                              *)
(***************************************************************************)
EXTENDS Integers, Sequences, FiniteSets, TLC

VARIABLES
    mu,             \* Manager.mu: 0 when free, else the holder of the write lock
    connections,    \* Manager.connections: connID -> [FishIDs, handler]
    fish,           \* Manager.fish: the set of fish ids in the map
    fishObj,        \* the Fish objects the map (and the tick's copy) point to
    termConfig,     \* Manager.termConfig: Nil or a TerminalConfig
    animationStop,  \* Manager.animationStop: Nil or the stop channel
    stopClosed,     \* whether the stop channel has been closed
    animationWg,    \* Manager.animationWg counter
    fishCounter,    \* Manager.fishCounter
    connCounter,    \* Manager.connCounter
    aquarium,       \* Manager.aquarium: Nil or [FloorRendered]
    loop,           \* the animationLoop goroutine: position and locals
    hs,             \* the connection handlers: handler -> fields and position
    sink,           \* what each handler's channel has been sent (event tags)
    ticks,          \* number of ticks started (bounded by MaxTicks)
    lastRender,     \* per fish id: record of the two latest Render calls
    clickLog,       \* record of the latest HandleMouseClick call
    up,             \* Handler.uploadImage: loop position and emitted frames
    stopper,        \* the goroutine that calls Manager.Stop, and the loops left behind
    shared          \* the Elixir SharedAquarium GenServer: its state and pending timers

vars == <<mu, connections, fish, fishObj, termConfig, animationStop, stopClosed,
          animationWg, fishCounter, connCounter, aquarium, loop, hs, sink,
          ticks, lastRender, clickLog, up, stopper, shared>>

\* a nil pointer (a record, so that it compares with records)
Nil == [nil |-> TRUE]
\* the channel StartAnimation makes
StopChan == [chan |-> TRUE]

(***************************************************************************)
(* Bounds of the model.                                                    *)
(***************************************************************************)
MaxTicks == 1         \* ticks of the animation loop in the concurrent model
MaxFishTicks == 3     \* ticks in the fish model
MaxDelta == 2         \* largest deltaTime of a tick, in time units
MaxClicks == 1        \* clicks in the fish model
MaxSpecClicks == 1     \* clicks in the concurrent model
MaxStarts == 2        \* shell requests in the teardown model
MaxRounds == 2        \* ticks in the broadcast model
MaxFish == 3          \* fish in the manager model
MaxLost == 2          \* frames readTerminalResponse takes in the negotiation model
MaxChunks == 2        \* uploads reach MaxChunks full chunks and a bit more
Slack == 2            \* bytes around each chunk boundary that are tried

\* the connection handlers (SSH sessions)
Handlers == {1, 2}

(***************************************************************************)
(* Program constants.                                                      *)
(***************************************************************************)
ImagePixelWidth == 64
ImagePixelHeight == 36
BobbingAmplitude == 12
tilePixelSize == 48
chunkSize == 4096
SubPx == 2            \* sub-pixels per pixel (fixed-point float64)
BobQ == 2             \* bob phase units per step: 4.8/s * (1/9.6 s) = 1/2
BubbleStep == 25 * SubPx   \* 240 px/s * (1/9.6 s), in sub-pixels
TrigScale == 1000

\* Go integer division and remainder truncate toward zero.
TruncDiv(a, b) == IF a >= 0 THEN a \div b ELSE -((-a) \div b)
GoMod(a, b) == a - b * TruncDiv(a, b)
\* int(x) for a float64 x held in sub-pixels
ToInt(x) == TruncDiv(x, SubPx)
\* nearest integer to a/b (b > 0), for fixed-point products
RoundDiv(a, b) == IF a >= 0 THEN (2 * a + b) \div (2 * b)
                  ELSE -((2 * (-a) + b) \div (2 * b))
Abs(x) == IF x < 0 THEN -x ELSE x
Min(a, b) == IF a < b THEN a ELSE b

TerminalConfig(c, r, cw, ch) ==
    [Columns |-> c, Rows |-> r, CellWidth |-> cw, CellHeight |-> ch]

(***************************************************************************)
(* UpdateBuffer: the commands are kept as records instead of bytes.        *)
(***************************************************************************)
AddClearCell(buf, row, col) == Append(buf, [t |-> "clear", row |-> row, col |-> col])

AddText(buf, row, col) == Append(buf, [t |-> "text", row |-> row, col |-> col])

AddDeletePlacement(buf, imageID, placementID) ==
    Append(buf, [t |-> "delete", i |-> imageID, p |-> placementID])

AddFishPlacement(buf, row, col, imageID, placementID, width, height, xOffset, yOffset) ==
    buf \o << [t |-> "cursor", row |-> row, col |-> col],
              [t |-> "place", i |-> imageID, p |-> placementID, c |-> width,
               r |-> height, X |-> xOffset, Y |-> yOffset] >>

(***************************************************************************)
(* Fish (src/internal/aquarium/fish.go, second definition of the file).    *)
(* A fish is a record; a bubble is [X, Y, PrevCol, PrevRow].  The glyph    *)
(* and the age of a bubble are written but never read, and are left out.   *)
(***************************************************************************)
\* usable height as Fish.Update computes it (float64: the tile height is
\* not rounded, so tileHeight * CellHeight is 48 + CellHeight - 1), in pixels
UpdateUsableHeight(config) ==
    config.Rows * config.CellHeight
        - (tilePixelSize + config.CellHeight - 1) - config.CellHeight

\* usable height as NewFish computes it (integer division), in pixels
NewFishUsableHeight(termHeight, cellHeight) ==
    termHeight - ((tilePixelSize + cellHeight - 1) \div cellHeight) * cellHeight
        - cellHeight

\* rand.Float64() is rx/RandDen with rx in 0..RandDen-1
RandDen == 4

NewFish(id, ownerID, termWidth, termHeight, cellWidth, cellHeight, rx, ry, rvx, rvy, rb) ==
    [ID |-> id, OwnerID |-> ownerID, PlacementID |-> id,
     PosX |-> TruncDiv(rx * (termWidth - ImagePixelWidth) * SubPx, RandDen),
     PosY |-> TruncDiv(ry * (NewFishUsableHeight(termHeight, cellHeight)
                              - ImagePixelHeight) * SubPx, RandDen),
     \* (rand - 0.5) * 4.8 * cellWidth px/s = (rand - 0.5) * cellWidth sub-pixels per unit
     VelX |-> TruncDiv((2 * rvx - RandDen) * cellWidth, 2 * RandDen),
     \* (rand - 0.5) * 1.2 * cellHeight px/s = (rand - 0.5) * cellHeight / 4
     VelY |-> TruncDiv((2 * rvy - RandDen) * cellHeight, 8 * RandDen),
     BobbingTime |-> rb,
     Bubbles |-> << >>,
     LastImageID |-> 0,
     BubblesToClear |-> << >>]

spawnBubble(f) ==
    [f EXCEPT !.Bubbles = Append(@, [X |-> f.PosX + (ImagePixelWidth \div 2) * SubPx,
                                      Y |-> f.PosY - 2 * SubPx,
                                      PrevCol |-> 0, PrevRow |-> 0])]

RECURSIVE updateBubblesFrom(_, _, _, _, _)
updateBubblesFrom(bubbles, k, deltaTime, active, toClear) ==
    IF k > Len(bubbles) THEN [active |-> active, toClear |-> toClear]
    ELSE LET b == [bubbles[k] EXCEPT !.Y = @ - BubbleStep * deltaTime]
         IN  IF b.Y >= 0
             THEN updateBubblesFrom(bubbles, k + 1, deltaTime, Append(active, b), toClear)
             ELSE updateBubblesFrom(bubbles, k + 1, deltaTime, active,
                      IF b.PrevCol > 0 /\ b.PrevRow > 0
                      THEN Append(toClear, [Row |-> b.PrevRow, Col |-> b.PrevCol])
                      ELSE toClear)

\* updateBubbles that drops a bubble without recording its last cell
updateBubblesForgetsCell(f, config, deltaTime) ==
    LET r == updateBubblesFrom(f.Bubbles, 1, deltaTime, << >>, f.BubblesToClear)
    IN  [f EXCEPT !.Bubbles = r.active]

updateBubbles(f, config, deltaTime) ==
    LET r == updateBubblesFrom(f.Bubbles, 1, deltaTime, << >>, f.BubblesToClear)
    IN  [f EXCEPT !.Bubbles = r.active, !.BubblesToClear = r.toClear]

\* Bounce that turns the fish but leaves it where it is
BounceNoClamp(pos, vel, size, limit) ==
    IF pos + size > limit THEN << pos, -Abs(vel) >>
    ELSE IF pos < 0 THEN << pos, Abs(vel) >>
    ELSE << pos, vel >>

\* Bounce that puts the fish on the wall but leaves its direction
BounceNoTurn(pos, vel, size, limit) ==
    IF pos + size > limit THEN << limit - size, vel >>
    ELSE IF pos < 0 THEN << 0, vel >>
    ELSE << pos, vel >>

\* the wall bounce of one coordinate: <<position, velocity>>
Bounce(pos, vel, size, limit) ==
    IF pos + size > limit THEN << limit - size, -Abs(vel) >>
    ELSE IF pos < 0 THEN << 0, Abs(vel) >>
    ELSE << pos, vel >>

\* Fish.Update up to the call of updateBubbles: the move, the wall bounce,
\* the bob phase and the spawn; spawn is the outcome of
\* rand.Float64() < BubbleSpawnRate*deltaTime
FishMove(f, config, deltaTime, spawn) ==
    LET termPixelWidth == config.Columns * config.CellWidth * SubPx
        usableHeight == UpdateUsableHeight(config) * SubPx
        bx == Bounce(f.PosX + f.VelX * deltaTime, f.VelX,
                     ImagePixelWidth * SubPx, termPixelWidth)
        by == Bounce(f.PosY + f.VelY * deltaTime, f.VelY,
                     ImagePixelHeight * SubPx, usableHeight)
        moved == [f EXCEPT !.PosX = bx[1], !.VelX = bx[2],
                           !.PosY = by[1], !.VelY = by[2],
                           !.BobbingTime = (@ + deltaTime) % (4 * BobQ)]
    IN  IF spawn THEN spawnBubble(moved) ELSE moved

\* Fish.Update
FishUpdate(f, config, deltaTime, spawn) ==
    updateBubbles(FishMove(f, config, deltaTime, spawn), config, deltaTime)

\* a bob offset that follows the phase continuously
BobbingOffsetSmooth(f) == 3 * (f.BobbingTime % (2 * BobQ))

\* the bob offset in pixels: 0, 6, 12, 6 for the four phase steps
BobbingOffset(f) ==
    LET step == (f.BobbingTime \div BobQ) % 4
    IN  CASE step = 0 -> 0
          [] step = 1 -> BobbingAmplitude \div 2
          [] step = 2 -> BobbingAmplitude
          [] OTHER    -> BobbingAmplitude \div 2

RECURSIVE RenderBubbles(_, _, _, _, _)
RenderBubbles(bubbles, k, config, done, buf) ==
    IF k > Len(bubbles) THEN [bubbles |-> done, buf |-> buf]
    ELSE LET b == bubbles[k]
             buf1 == IF b.PrevCol > 0 /\ b.PrevRow > 0
                     THEN AddClearCell(buf, b.PrevRow, b.PrevCol) ELSE buf
             bubbleCol == TruncDiv(b.X, SubPx * config.CellWidth) + 1
             bubbleRow == TruncDiv(b.Y, SubPx * config.CellHeight) + 1
             visible == bubbleCol >= 1 /\ bubbleCol <= config.Columns
                        /\ bubbleRow >= 1 /\ bubbleRow <= config.Rows
         IN  IF visible
             THEN RenderBubbles(bubbles, k + 1, config,
                      Append(done, [b EXCEPT !.PrevCol = bubbleCol, !.PrevRow = bubbleRow]),
                      AddText(buf1, bubbleRow, bubbleCol))
             ELSE RenderBubbles(bubbles, k + 1, config, Append(done, b), buf1)

RECURSIVE ClearCells(_, _, _)
ClearCells(toClear, k, buf) ==
    IF k > Len(toClear) THEN buf
    ELSE ClearCells(toClear, k + 1, AddClearCell(buf, toClear[k].Row, toClear[k].Col))

\* the sprite variant Render chooses: 1 = left-facing, 2 = right-facing
ImageIDOf(f) == IF f.VelX > 0 THEN 2 ELSE 1

\* NeedsDelete that fires only on the first render
NeedsDeleteOnFirst(f, imageID) == f.LastImageID = 0

\* whether Render emits a deletion of the old placement
NeedsDelete(f, imageID) == f.LastImageID # 0 /\ f.LastImageID # imageID

\* Fish.Render: the fish after the call and the buffer after the call
FishRender(f, buf, config) ==
    LET buf1 == ClearCells(f.BubblesToClear, 1, buf)
        finalY == f.PosY + BobbingOffset(f) * SubPx
        col == TruncDiv(f.PosX, SubPx * config.CellWidth) + 1
        xOffset == GoMod(ToInt(f.PosX), config.CellWidth)
        row == TruncDiv(finalY, SubPx * config.CellHeight) + 1
        yOffset == GoMod(ToInt(finalY), config.CellHeight)
        rb == RenderBubbles(f.Bubbles, 1, config, << >>, buf1)
        imageID == ImageIDOf(f)
        buf2 == IF NeedsDelete(f, imageID)
                THEN AddDeletePlacement(rb.buf, f.LastImageID, f.PlacementID)
                ELSE rb.buf
        imageCellWidth == (ImagePixelWidth + config.CellWidth - 1) \div config.CellWidth
        imageCellHeight == (ImagePixelHeight + config.CellHeight - 1) \div config.CellHeight
    IN  [fish |-> [f EXCEPT !.BubblesToClear = << >>, !.Bubbles = rb.bubbles,
                            !.LastImageID = imageID],
         buf |-> AddFishPlacement(buf2, row, col, imageID, f.PlacementID,
                                  imageCellWidth, imageCellHeight, xOffset, yOffset)]

\* Fish.CheckCollision; mouseX and mouseY are pixels
CheckCollision(f, mouseX, mouseY) ==
    LET finalY == f.PosY + BobbingOffset(f) * SubPx
    IN  /\ mouseX >= ToInt(f.PosX)
        /\ mouseX <= ToInt(f.PosX) + ImagePixelWidth
        /\ mouseY >= ToInt(finalY)
        /\ mouseY <= ToInt(finalY) + ImagePixelHeight

\* the angles OnClick chooses from, in degrees
angles == {90, 180, 260}

\* cos and sin of the angles, times TrigScale
Cos(a) == CASE a = 90 -> 0 [] a = 180 -> -TrigScale [] a = 260 -> -174 [] OTHER -> TrigScale
Sin(a) == CASE a = 90 -> TrigScale [] a = 180 -> 0 [] a = 260 -> -985 [] OTHER -> 0

\* the velocity <<x, y>> rotated by a degrees
Rotate(vx, vy, a) ==
    << RoundDiv(vx * Cos(a) - vy * Sin(a), TrigScale),
       RoundDiv(vx * Sin(a) + vy * Cos(a), TrigScale) >>

\* the bubbles one click spawns; jit[i] is (rand-0.5)*20 pixels in sub-pixels
ClickBubbleCount == 3

ClickBubbles(f, jit) ==
    [i \in 1..ClickBubbleCount |->
        [X |-> f.PosX + 32 * SubPx + jit[i],
         Y |-> f.PosY - 2 * SubPx - (i - 1) * 5 * SubPx,
         PrevCol |-> 0, PrevRow |-> 0]]

\* OnClick that only turns the fish around horizontally
OnClickTurnsAround(f, randomAngle, jit) ==
    [f EXCEPT !.Bubbles = @ \o ClickBubbles(f, jit), !.VelX = -f.VelX]

\* Fish.OnClick; randomAngle and jit are the random choices
OnClick(f, randomAngle, jit) ==
    LET v == Rotate(f.VelX, f.VelY, randomAngle)
    IN  [f EXCEPT !.Bubbles = @ \o ClickBubbles(f, jit),
                  !.VelX = v[1], !.VelY = v[2]]

(***************************************************************************)
(* Manager (src/unnamed/part_008) and Handler                              *)
(* (src/internal/connection/handler.go).                                   *)
(*                                                                         *)
(* A handler h is a goroutine position hs[h].pc plus the Handler fields.   *)
(* mu is the holder of the manager's write lock; a read-locked section     *)
(* that does not block inside is one step that needs mu free.              *)
(***************************************************************************)
\* the character grids a pty-req may announce (Nil: no pty-req)
PtyDims == { Nil, [columns |-> 10, rows |-> 8] }
\* the pixel sizes a terminal may answer ESC[14t with (Nil: no answer)
Responses == { Nil, [w |-> 100, h |-> 160] }
\* rand.Intn(6) in AddConnection
FloorTileIDs == {5}
\* the random numerators NewFish draws in the concurrent model
SpawnRands == { <<1, 1, 3, 1, 3>> }
\* the outcomes of the bubble jitter of a click in the concurrent model
SpecJitters == { <<0, 0, 0>> }
\* the deltaTime values and bubble spawn outcomes of the concurrent model
SpecDeltas == {1}
SpecSpawns == {FALSE}
\* the buttons a mouse frame carries in the concurrent model
SpecButtons == {0}
\* the angles OnClick draws in the concurrent model
SpecAngles == {180}

DefaultColumns == 80
DefaultRows == 24
DefaultCellWidth == 8
DefaultCellHeight == 16

\* connection.New
NewHandler ==
    [pc |-> "new", running |-> FALSE, connID |-> 0,
     termColumns |-> DefaultColumns, termRows |-> DefaultRows,
     cellWidth |-> DefaultCellWidth, cellHeight |-> DefaultCellHeight,
     doneClosed |-> FALSE, config |-> Nil, detect |-> "none", isFirst |-> FALSE,
     broken |-> FALSE, stalled |-> FALSE, reader |-> FALSE, lost |-> 0,
     chunk |-> << >>, handled |-> << >>]

NoLoop ==
    [pc |-> "none", stopChan |-> Nil, fishData |-> {}, termConfig |-> Nil,
     connData |-> {}, todo |-> {}, cur |-> 0, buf |-> << >>, deltaTime |-> 0,
     renderStatus |-> FALSE, streams |-> {}, failed |-> {}, w |-> 0,
     activeBubbles |-> << >>]

NoRender == [prev |-> 0, out |-> << >>]
NoClick == [n |-> 0, connID |-> 0, button |-> 0, col |-> 0, row |-> 0, first |-> 0]
\* no call of Manager.Stop yet; orphans counts the animation loop goroutines
\* that still run although a later StartAnimation has started another
NoStop == [pc |-> "idle", orphans |-> 0]

\* SharedAquarium.init: the GenServer state, with no timeout message pending
\* (timeouts) and no frame broadcast (frames)
NoShared ==
    [viewers |-> {}, fish |-> << >>, terminal_config |-> Nil, animation_timer |-> Nil,
     connection_counter |-> 0, fish_counter |-> 0, timeouts |-> << >>, frames |-> 0]

NoUpload == [pc |-> "idle", data |-> << >>, imageID |-> 0, base64Data |-> << >>,
             i |-> 0, frames |-> << >>]

\* NewManager, and a fresh handler for every session
InitManager ==
    /\ mu = 0
    /\ connections = << >>
    /\ fish = {}
    /\ fishObj = << >>
    /\ termConfig = Nil
    /\ animationStop = Nil
    /\ stopClosed = FALSE
    /\ animationWg = 0
    /\ fishCounter = 0
    /\ connCounter = 0
    /\ aquarium = Nil
    /\ loop = NoLoop
    /\ hs = [h \in Handlers |-> NewHandler]
    /\ sink = [h \in Handlers |-> << >>]
    /\ ticks = 0
    /\ lastRender = << >>
    /\ clickLog = NoClick
    /\ stopper = NoStop
    /\ shared = NoShared

Init ==
    /\ InitManager
    /\ up = NoUpload

ConnIDs == DOMAIN connections

\* a function with key k set to v (a map assignment)
Put(f, k, v) == [x \in (DOMAIN f) \cup {k} |-> IF x = k THEN v ELSE f[x]]
\* a function without the keys in ks (a map delete)
Drop(f, ks) == [x \in (DOMAIN f) \ ks |-> f[x]]

mgrVars == <<mu, connections, fish, fishObj, termConfig, animationStop, stopClosed,
             animationWg, fishCounter, connCounter, aquarium>>
fishVars == <<fish, fishObj>>
logVars == <<lastRender, clickLog>>

\* Handler.SetTerminal(termType, columns, rows), on the handler's fields
SetTerminal(hrec, columns, rows) ==
    [hrec EXCEPT !.termColumns = columns, !.termRows = rows]

\* Session start: an optional pty-req (SetTerminal), then the shell request:
\* Handler.Start with Manager.AddConnection, setupTerminal and the ESC[14t
\* query of detectTerminalAndInit with the start of the goroutine that runs
\* readTerminalResponse (reader).  pty is Nil or the announced grid.
StartBody(h, pty, floorTile) ==
    /\ ~hs[h].running
    /\ mu = 0
    /\ LET connID == connCounter + 1
           isFirst == ConnIDs = {}
           hrec == IF pty = Nil THEN hs[h] ELSE SetTerminal(hs[h], pty.columns, pty.rows)
       IN  /\ connCounter' = connID
           /\ connections' = Put(connections, connID, [FishIDs |-> << >>, Stream |-> h])
           /\ aquarium' = IF isFirst
                          THEN [FloorTileID |-> floorTile, FloorRendered |-> FALSE]
                          ELSE aquarium
           /\ hs' = [hs EXCEPT ![h] = [hrec EXCEPT !.running = TRUE, !.connID = connID,
                                                   !.isFirst = isFirst,
                                                   !.reader = TRUE,
                                                   !.pc = "detect"]]
           /\ sink' = [sink EXCEPT ![h] = @ \o << "setup", "query" >>]
    /\ UNCHANGED <<mu, fishVars, termConfig, animationStop, stopClosed, animationWg,
                   fishCounter, loop, ticks, logVars, up, stopper, shared>>

\* the first shell request of a session
Start(h, pty, floorTile) ==
    /\ hs[h].pc = "new"
    /\ StartBody(h, pty, floorTile)

\* a further shell request that handleSession receives after the handler
\* was closed: Handler.Start runs again, h.done stays closed
Restart(h, floorTile) ==
    /\ hs[h].pc = "closed"
    /\ connCounter < MaxStarts
    /\ StartBody(h, Nil, floorTile)

\* Handler.Close on a handler that is not running (before Start, or after
\* another Close): it returns at the running test
CloseNoOp(h) ==
    /\ hs[h].pc \in {"new", "closed"}
    /\ ~hs[h].running
    /\ UNCHANGED vars

\* the cell size detectTerminalAndInit derives from a response
DetectedCell(hrec, pixelWidth, pixelHeight) ==
    IF hrec.termColumns > 0 /\ hrec.termRows > 0
    THEN [hrec EXCEPT !.cellWidth = pixelWidth \div hrec.termColumns,
                      !.cellHeight = pixelHeight \div hrec.termRows]
    ELSE hrec

\* initializeAquarium: the config built from the handler's fields
HandlerConfig(hrec) ==
    TerminalConfig(hrec.termColumns, hrec.termRows, hrec.cellWidth, hrec.cellHeight)

\* detectTerminalAndInit from the select to the GetTerminalConfig() == nil
\* test of initializeAquarium.  resp is the pixel size <<width, height>> the
\* terminal answered, or Nil when time.After(2 * time.Second) fired first.
\* readTerminalResponse returns when it has matched a response; on the
\* timeout its goroutine stays in channel.Read.
DetectAndInit(h, resp) ==
    /\ hs[h].pc = "detect"
    /\ mu = 0
    /\ LET hrec == IF resp = Nil THEN hs[h] ELSE DetectedCell(hs[h], resp.w, resp.h)
       IN  hs' = [hs EXCEPT ![h] =
                    [hrec EXCEPT !.detect = IF resp = Nil THEN "timeout" ELSE "response",
                                 !.reader = (resp = Nil),
                                 !.config = HandlerConfig(hrec),
                                 !.pc = IF termConfig = Nil THEN "setconfig" ELSE "upload"]]
    /\ UNCHANGED <<mgrVars, loop, sink, ticks, logVars, up, stopper, shared>>

\* Manager.SetTerminalConfig, called by initializeAquarium
SetTerminalConfig(h) ==
    /\ hs[h].pc = "setconfig"
    /\ mu = 0
    /\ termConfig' = hs[h].config
    /\ hs' = [hs EXCEPT ![h].pc = "startanim"]
    /\ UNCHANGED <<mu, connections, fishVars, animationStop, stopClosed, animationWg,
                   fishCounter, connCounter, aquarium, loop, sink, ticks, logVars, up, stopper, shared>>

\* Manager.StartAnimation, called by initializeAquarium.  The model follows one animation loop goroutine,
\* the one started last; a goroutine that is still running when another is
\* started is only counted (stopper.orphans, and animationWg).
StartAnimation(h) ==
    /\ hs[h].pc = "startanim"
    /\ mu = 0
    /\ IF animationStop # Nil
       THEN UNCHANGED <<animationStop, stopClosed, animationWg, loop>>
       ELSE /\ animationStop' = StopChan
            /\ stopClosed' = FALSE
            /\ animationWg' = animationWg + 1
            /\ loop' = [NoLoop EXCEPT !.pc = "init"]
    /\ stopper' = IF animationStop = Nil /\ loop.pc # "none"
                  THEN [stopper EXCEPT !.orphans = @ + 1] ELSE stopper
    /\ hs' = [hs EXCEPT ![h].pc = "upload"]
    /\ UNCHANGED <<mu, connections, fishVars, termConfig, fishCounter, connCounter,
                   aquarium, sink, ticks, logVars, up, shared>>

\* Handler.uploadImages: the image frames are written to the channel
UploadImages(h) ==
    /\ hs[h].pc = "upload"
    /\ sink' = [sink EXCEPT ![h] = Append(@, "upload")]
    /\ hs' = [hs EXCEPT ![h].pc = "addfish"]
    /\ UNCHANGED <<mgrVars, loop, ticks, logVars, up, stopper, shared>>

\* the counts AddFish is called with (initializeAquarium passes 1)
AddFishCounts == {1, 3}

\* AddFish that spawns as many fish as it is asked for
SpawnCountAsPassed(count) == count

\* AddFish that spawns no fish
SpawnCountNone(count) == 0

\* AddFish: "Always spawn only 1 fish per connection", count = 1
SpawnCount(count) == 1

\* Manager.AddFish(connID, count) on the manager's fields
AddFishBody(connID, count, r) ==
    IF connID \notin ConnIDs \/ termConfig = Nil
    THEN UNCHANGED <<fish, fishObj, fishCounter, connections>>
    ELSE LET n == SpawnCount(count)
             fishIDs == [i \in 1..n |-> fishCounter + i]
             ids == { fishIDs[i] : i \in 1..n }
             termPixelWidth == termConfig.Columns * termConfig.CellWidth
             termPixelHeight == termConfig.Rows * termConfig.CellHeight
         IN  /\ fishCounter' = fishCounter + n
             /\ fish' = fish \cup ids
             /\ fishObj' = [x \in (DOMAIN fishObj) \cup ids |->
                              IF x \in ids
                              THEN NewFish(x, connID, termPixelWidth, termPixelHeight,
                                           termConfig.CellWidth, termConfig.CellHeight,
                                           r[1], r[2], r[3], r[4], r[5])
                              ELSE fishObj[x]]
             /\ connections' = [connections EXCEPT ![connID].FishIDs = @ \o fishIDs]

\* initializeAquarium: Manager.AddFish(h.connID, count), then Start returns
\* and handleInput runs
AddFish(h, count, r) ==
    /\ hs[h].pc = "addfish"
    /\ mu = 0
    /\ AddFishBody(hs[h].connID, count, r)
    /\ hs' = [hs EXCEPT ![h].pc = "input"]
    /\ UNCHANGED <<mu, termConfig, animationStop, stopClosed, animationWg, connCounter,
                   aquarium, loop, sink, ticks, logVars, up, stopper, shared>>

\* the image id of the placement command in the output of one Render call
PlacedImage(out) ==
    IF \E j \in 1..Len(out) : out[j].t = "place"
    THEN out[CHOOSE j \in 1..Len(out) : out[j].t = "place"].i
    ELSE 0

\* lastRender after a Render call of fish fid that emitted out
RecordRender(lr, fid, out) ==
    Put(lr, fid, [prev |-> IF fid \in DOMAIN lr THEN PlacedImage(lr[fid].out) ELSE 0,
                  out |-> out])

\* ClickCandidates without the owner test
ClickCandidatesAnyOwner(connID, mouseX, mouseY) ==
    { id \in fish : CheckCollision(fishObj[id], mouseX, mouseY) }

\* the fish of the table that HandleMouseClick may call OnClick on: the loop
\* skips colliding fish of other owners and stops at the first own one
ClickCandidates(connID, mouseX, mouseY) ==
    { id \in fish : CheckCollision(fishObj[id], mouseX, mouseY)
                    /\ fishObj[id].OwnerID = connID }

\* the fish of the table whose rectangle holds the clicked pixel
CollidingFish(mouseX, mouseY) ==
    { id \in fish : CheckCollision(fishObj[id], mouseX, mouseY) }

\* HandleMouseClick without the break after OnClick
ClickedFishNoBreak(hit) == { hit }

\* the sets of fish one HandleMouseClick may call OnClick on, given the
\* colliding fish of the clicker: the loop breaks after the first OnClick
ClickedFish(hit) == { {id} : id \in hit }

\* HandleMouseClick that takes every button
ActionableAny(button) == TRUE

\* HandleMouseClick: "Only handle left click"
Actionable(button) == button = 0

\* Manager.HandleMouseClick; randomAngle and jit are OnClick's random choices.
\* The range over m.fish visits the fish in any order: first is the first
\* colliding fish of the order taken (0 when none collides); when it is the
\* clicker's, it is the fish clicked.
HandleMouseClickBody(connID, button, col, row, randomAngle, jit) ==
    /\ mu = 0
    /\ IF termConfig = Nil \/ ~Actionable(button)
       THEN /\ clickLog' = [n |-> clickLog.n + 1, connID |-> connID, button |-> button,
                            col |-> col, row |-> row, first |-> 0]
            /\ UNCHANGED fishObj
       ELSE LET mouseX == (col - 1) * termConfig.CellWidth
                mouseY == (row - 1) * termConfig.CellHeight
                colliding == CollidingFish(mouseX, mouseY)
                hit == ClickCandidates(connID, mouseX, mouseY)
            IN  \E first \in IF colliding = {} THEN {0} ELSE colliding :
                   /\ clickLog' = [n |-> clickLog.n + 1, connID |-> connID,
                                   button |-> button, col |-> col, row |-> row,
                                   first |-> first]
                   /\ IF hit = {}
                      THEN UNCHANGED fishObj
                      ELSE \E clicked \in ClickedFish(hit) :
                              /\ first \in hit => first \in clicked
                              /\ fishObj' = [id \in DOMAIN fishObj |->
                                               IF id \in clicked
                                               THEN OnClick(fishObj[id], randomAngle, jit)
                                               ELSE fishObj[id]]
    /\ UNCHANGED <<mu, connections, fish, termConfig, animationStop, stopClosed,
                   animationWg, fishCounter, connCounter, aquarium, loop, sink,
                   ticks, lastRender, up, stopper, shared>>

\* a call of Manager.HandleMouseClick that leaves its caller where it was
HandleMouseClick(connID, button, col, row, randomAngle, jit) ==
    /\ HandleMouseClickBody(connID, button, col, row, randomAngle, jit)
    /\ UNCHANGED hs

\* the cells a session clicks in the concurrent model: the cell of the
\* rendered origin of some fish
ClickCells ==
    { << TruncDiv(ToInt(fishObj[id].PosX), termConfig.CellWidth) + 1,
         TruncDiv(ToInt(fishObj[id].PosY) + BobbingOffset(fishObj[id]),
                  termConfig.CellHeight) + 1 >> : id \in IF termConfig = Nil THEN {} ELSE fish }

\* Handler.processInput on a mouse frame ESC [ M b x y
ProcessMouse(h, button, col, row, randomAngle, jit) ==
    /\ hs[h].pc = "input"
    /\ clickLog.n < MaxSpecClicks
    /\ HandleMouseClick(hs[h].connID, button, col, row, randomAngle, jit)

\* the fish objects the running tick still points to
LoopHeld ==
    IF loop.pc \in {"update", "assign", "render", "lock2", "status", "write", "blocked"}
    THEN loop.fishData ELSE {}

\* Manager.createPoofEffect: "TODO: Implement poof effect", does nothing
createPoofEffect(f) == TRUE

\* RemoveConnection that leaves the fish of the session in the table
OwnedFishNone(connID) == {}

\* RemoveConnection that empties the fish table
OwnedFishAll(connID) == fish

\* RemoveConnection: the fish of conn.FishIDs that are in the fish table
OwnedFish(connID) ==
    { connections[connID].FishIDs[j] : j \in 1..Len(connections[connID].FishIDs) }
        \cap fish

\* Handler.Close (on EOF, a read error, Ctrl-C, Ctrl-D, q or the deferred
\* Close of the session): the running test, close(h.done) and
\* Manager.RemoveConnection from m.mu.Lock() up to animationWg.Wait(); when
\* the wait is not reached, also the rest of Close (cleanupTerminal)
Close(h) ==
    /\ hs[h].pc = "input"
    /\ hs[h].running
    /\ mu = 0
    /\ LET connID == hs[h].connID
           hrec == [hs[h] EXCEPT !.running = FALSE, !.doneClosed = TRUE]
           \* channel.Close() makes a pending channel.Read return an error and
           \* every later channel.Write fail
           shut == [hrec EXCEPT !.pc = "closed", !.reader = FALSE, !.broken = TRUE]
       IN  IF hs[h].doneClosed
           THEN \* close(h.done) of a closed channel panics
                /\ hs' = [hs EXCEPT ![h] = [hrec EXCEPT !.pc = "panic"]]
                /\ UNCHANGED <<mu, connections, fish, fishObj, lastRender, stopClosed,
                               sink>>
           ELSE IF connID \notin ConnIDs
           THEN /\ hs' = [hs EXCEPT ![h] = shut]
                /\ sink' = [sink EXCEPT ![h] = Append(@, "cleanup")]
                /\ UNCHANGED <<mu, connections, fish, fishObj, lastRender, stopClosed>>
           ELSE LET ids == OwnedFish(connID)
                    gone == ids \ LoopHeld
                    last == ConnIDs = {connID}
                IN  /\ \A id \in ids : createPoofEffect(fishObj[id])
                    /\ fish' = fish \ ids
                    /\ fishObj' = Drop(fishObj, gone)
                    /\ lastRender' = Drop(lastRender, gone)
                    /\ connections' = Drop(connections, {connID})
                    /\ IF last /\ animationStop # Nil
                       THEN /\ stopClosed' = TRUE
                            /\ mu' = h
                            /\ hs' = [hs EXCEPT ![h] = [hrec EXCEPT !.pc = "wgwait"]]
                            /\ UNCHANGED sink
                       ELSE /\ UNCHANGED <<stopClosed, mu>>
                            /\ hs' = [hs EXCEPT ![h] = shut]
                            /\ sink' = [sink EXCEPT ![h] = Append(@, "cleanup")]
    /\ UNCHANGED <<termConfig, animationStop, animationWg, fishCounter, connCounter,
                   aquarium, loop, ticks, clickLog, up, stopper, shared>>

\* CloseReset with the terminal config kept across the epoch end
CloseResetKeepsConfig(h) ==
    /\ hs[h].pc = "wgwait"
    /\ animationWg = 0
    /\ animationStop' = Nil
    /\ aquarium' = Nil
    /\ fishCounter' = 0
    /\ mu' = 0
    /\ hs' = [hs EXCEPT ![h].pc = "closed", ![h].reader = FALSE,
                          ![h].broken = TRUE]
    /\ sink' = [sink EXCEPT ![h] = Append(@, "cleanup")]
    /\ UNCHANGED <<connections, fish, fishObj, termConfig, stopClosed, animationWg,
                   connCounter, loop, ticks, logVars, up, stopper, shared>>

\* Manager.RemoveConnection from the return of animationWg.Wait() to its
\* end, and the rest of Handler.Close (cleanupTerminal)
CloseReset(h) ==
    /\ hs[h].pc = "wgwait"
    /\ animationWg = 0
    /\ animationStop' = Nil
    /\ termConfig' = Nil
    /\ aquarium' = Nil
    /\ fishCounter' = 0
    /\ mu' = 0
    /\ hs' = [hs EXCEPT ![h].pc = "closed", ![h].reader = FALSE,
                          ![h].broken = TRUE]
    /\ sink' = [sink EXCEPT ![h] = Append(@, "cleanup")]
    /\ UNCHANGED <<connections, fish, fishObj, stopClosed, animationWg, connCounter,
                   loop, ticks, logVars, up, stopper, shared>>

(***************************************************************************)
(* The animation loop goroutine (animationLoop, updateAndBroadcast).       *)
(***************************************************************************)
\* animationLoop: the read-locked section that copies m.animationStop
LoopInit ==
    /\ loop.pc = "init"
    /\ mu = 0
    /\ loop' = [loop EXCEPT !.stopChan = animationStop, !.pc = "select"]
    /\ UNCHANGED <<mgrVars, hs, sink, ticks, logVars, up, stopper, shared>>

\* animationLoop: case <-stopChan, then the deferred animationWg.Done()
LoopStop ==
    /\ loop.pc = "select"
    /\ loop.stopChan # Nil
    /\ stopClosed
    /\ animationWg' = animationWg - 1
    /\ loop' = NoLoop
    /\ UNCHANGED <<mu, connections, fish, fishObj, termConfig, animationStop,
                   stopClosed, fishCounter, connCounter, aquarium, hs, sink, ticks,
                   logVars, up, stopper, shared>>

\* animationLoop: case <-ticker.C, calling updateAndBroadcast; n bounds the
\* number of ticks
LoopTickUpTo(n) ==
    /\ loop.pc = "select"
    /\ ticks < n
    /\ ticks' = ticks + 1
    /\ loop' = [loop EXCEPT !.pc = "ub"]
    /\ UNCHANGED <<mgrVars, hs, sink, logVars, up, stopper, shared>>

LoopTick == LoopTickUpTo(MaxTicks)

\* updateAndBroadcast from its start to the end of the first locked section:
\* the non-blocking receive on the stop channel, then the copy of the fish
\* pointers, the config and the streams.  A range over a Go map visits the
\* keys in any order: the copies are kept as sets and the loops below draw
\* the next element from what is left.
UBSnapshot ==
    /\ loop.pc = "ub"
    /\ mu = 0
    /\ IF (animationStop # Nil /\ stopClosed) \/ ConnIDs = {} \/ termConfig = Nil
       THEN loop' = [loop EXCEPT !.pc = "select"]
       ELSE \E deltaTime \in SpecDeltas :
               loop' = [loop EXCEPT
                          !.deltaTime = deltaTime,
                          !.fishData = fish,
                          !.todo = fish,
                          !.termConfig = termConfig,
                          !.connData = { connections[c].Stream : c \in ConnIDs },
                          !.streams = { connections[c].Stream : c \in ConnIDs },
                          !.failed = {},
                          !.buf = << >>,
                          !.pc = IF fish = {} THEN "lock2" ELSE "update"]
    /\ UNCHANGED <<mgrVars, hs, sink, ticks, logVars, up, stopper, shared>>

\* updateAndBroadcast: fish.Update(termConfig, deltaTime), no lock held
UBUpdate ==
    /\ loop.pc = "update"
    /\ \E fid \in loop.todo, spawn \in SpecSpawns :
          /\ fishObj' = [fishObj EXCEPT ![fid] =
                            FishUpdate(@, loop.termConfig, loop.deltaTime, spawn)]
          /\ loop' = [loop EXCEPT !.cur = fid, !.todo = @ \ {fid}, !.pc = "render"]
    /\ UNCHANGED <<mu, connections, fish, termConfig, animationStop, stopClosed,
                   animationWg, fishCounter, connCounter, aquarium, hs, sink, ticks,
                   logVars, up, stopper, shared>>

\* UBRender that leaves the loop over the fish after the first fish
UBRenderLeavesEarly ==
    /\ loop.pc = "render"
    /\ LET fid == loop.cur
           r == FishRender(fishObj[fid], << >>, loop.termConfig)
       IN  /\ fishObj' = [fishObj EXCEPT ![fid] = r.fish]
           /\ lastRender' = RecordRender(lastRender, fid, r.buf)
           /\ loop' = [loop EXCEPT !.buf = @ \o r.buf, !.cur = 0, !.pc = "lock2"]
    /\ UNCHANGED <<mu, connections, fish, termConfig, animationStop, stopClosed,
                   animationWg, fishCounter, connCounter, aquarium, hs, sink, ticks,
                   clickLog, up, stopper, shared>>

\* updateAndBroadcast: fish.Render(updateBuf, termConfig), no lock held
UBRender ==
    /\ loop.pc = "render"
    /\ LET fid == loop.cur
           r == FishRender(fishObj[fid], << >>, loop.termConfig)
       IN  /\ fishObj' = [fishObj EXCEPT ![fid] = r.fish]
           /\ lastRender' = RecordRender(lastRender, fid, r.buf)
           /\ loop' = [loop EXCEPT !.buf = @ \o r.buf,
                                   !.cur = 0,
                                   !.pc = IF loop.todo # {} THEN "update" ELSE "lock2"]
    /\ UNCHANGED <<mu, connections, fish, termConfig, animationStop, stopClosed,
                   animationWg, fishCounter, connCounter, aquarium, hs, sink, ticks,
                   clickLog, up, stopper, shared>>

\* Manager.renderFloor: the floor tile placements
RECURSIVE FloorTiles(_, _, _, _, _, _, _)
FloorTiles(buf, i, tilesNeeded, tileWidth, tileHeight, floorRow, aq) ==
    IF i >= tilesNeeded THEN buf
    ELSE FloorTiles(Append(buf, [t |-> "floor", row |-> floorRow, col |-> i * tileWidth + 1,
                                 i |-> 10 + aq.FloorTileID, p |-> 1000 + i,
                                 c |-> tileWidth, r |-> tileHeight]),
                    i + 1, tilesNeeded, tileWidth, tileHeight, floorRow, aq)

renderFloor(buf, config, aq) ==
    LET tileWidth == (tilePixelSize + config.CellWidth - 1) \div config.CellWidth
        tileHeight == (tilePixelSize + config.CellHeight - 1) \div config.CellHeight
        floorRow == IF tileHeight > 1 THEN config.Rows - tileHeight ELSE config.Rows - 1
        tilesNeeded == (config.Columns + tileWidth - 1) \div tileWidth
    IN  FloorTiles(buf, 0, tilesNeeded, tileWidth, tileHeight, floorRow, aq)

\* updateAndBroadcast: the second locked section (floor once, status at 1 FPS)
UBFloor ==
    /\ loop.pc = "lock2"
    /\ mu = 0
    /\ IF aquarium = Nil
       THEN /\ loop' = [loop EXCEPT !.renderStatus = FALSE, !.pc = "write"]
            /\ UNCHANGED aquarium
       ELSE \E renderStatus \in BOOLEAN :
               /\ aquarium' = [aquarium EXCEPT !.FloorRendered = TRUE]
               /\ loop' = [loop EXCEPT
                             !.buf = IF aquarium.FloorRendered THEN @
                                     ELSE renderFloor(@, loop.termConfig, aquarium),
                             !.renderStatus = renderStatus,
                             !.pc = IF renderStatus THEN "status" ELSE "write"]
    /\ UNCHANGED <<mu, connections, fish, fishObj, termConfig, animationStop,
                   stopClosed, animationWg, fishCounter, connCounter, hs, sink,
                   ticks, logVars, up, stopper, shared>>

\* Manager.renderStatus: clears the status row and, in a read-locked
\* section, copies the fish to print the user names
UBStatus ==
    /\ loop.pc = "status"
    /\ mu = 0
    /\ loop' = [loop EXCEPT !.buf = Append(@, [t |-> "status", row |-> loop.termConfig.Rows]),
                            !.pc = "write"]
    /\ UNCHANGED <<mgrVars, hs, sink, ticks, logVars, up, stopper, shared>>

\* WriteTo that gives up the broadcast of the tick at the first write error
WriteToAbortsOnError(h) ==
    IF hs[h].stalled /\ ~hs[h].broken
    THEN /\ loop' = [loop EXCEPT !.pc = "blocked", !.w = h]
         /\ UNCHANGED <<sink, fishObj, lastRender>>
    ELSE /\ sink' = IF hs[h].broken THEN sink ELSE [sink EXCEPT ![h] = Append(@, "tick")]
         /\ IF loop.connData = {h} \/ hs[h].broken
            THEN /\ loop' = [NoLoop EXCEPT
                                !.stopChan = loop.stopChan, !.pc = "select",
                                !.failed = IF hs[h].broken THEN loop.failed \cup {h}
                                           ELSE loop.failed]
                 /\ fishObj' = Drop(fishObj, DOMAIN fishObj \ fish)
                 /\ lastRender' = Drop(lastRender, DOMAIN lastRender \ fish)
            ELSE /\ loop' = [loop EXCEPT !.connData = @ \ {h}, !.pc = "write", !.w = 0]
                 /\ UNCHANGED <<fishObj, lastRender>>

\* conn.Write(output) on the stream of handler h, the next of the copied
\* streams.  The call does not return while the session takes no data
\* (stalled) unless its channel is closed (broken), in which case it returns
\* an error, which the loop drops.  After the last stream the tick returns
\* to the select of animationLoop.
WriteTo(h) ==
    IF hs[h].stalled /\ ~hs[h].broken
    THEN /\ loop' = [loop EXCEPT !.pc = "blocked", !.w = h]
         /\ UNCHANGED <<sink, fishObj, lastRender>>
    ELSE /\ sink' = IF hs[h].broken THEN sink ELSE [sink EXCEPT ![h] = Append(@, "tick")]
         /\ IF loop.connData = {h}
            THEN /\ loop' = [NoLoop EXCEPT
                                !.stopChan = loop.stopChan, !.pc = "select",
                                !.failed = IF hs[h].broken THEN loop.failed \cup {h}
                                           ELSE loop.failed]
                 /\ fishObj' = Drop(fishObj, DOMAIN fishObj \ fish)
                 /\ lastRender' = Drop(lastRender, DOMAIN lastRender \ fish)
            ELSE /\ loop' = [loop EXCEPT !.connData = @ \ {h}, !.pc = "write", !.w = 0,
                                         !.failed = IF hs[h].broken THEN @ \cup {h} ELSE @]
                 /\ UNCHANGED <<fishObj, lastRender>>

\* updateAndBroadcast: the loop over connData
UBWrite ==
    /\ loop.pc = "write"
    /\ \E h \in loop.connData : WriteTo(h)
    /\ UNCHANGED <<mu, connections, fish, termConfig, animationStop, stopClosed,
                   animationWg, fishCounter, connCounter, aquarium, hs, ticks,
                   clickLog, up, stopper, shared>>

\* a blocked conn.Write returns its error when the channel is closed
UBWriteUnblocked ==
    /\ loop.pc = "blocked"
    /\ hs[loop.w].broken
    /\ WriteTo(loop.w)
    /\ UNCHANGED <<mu, connections, fish, termConfig, animationStop, stopClosed,
                   animationWg, fishCounter, connCounter, aquarium, hs, ticks,
                   clickLog, up, stopper, shared>>

\* the peer of session h closes the channel or the connection drops: writes
\* to the channel fail and the Read of handleInput returns an error
Break(h) ==
    /\ hs[h].pc = "input"
    /\ ~hs[h].broken
    /\ hs' = [hs EXCEPT ![h].broken = TRUE]
    /\ UNCHANGED <<mgrVars, loop, sink, ticks, logVars, up, stopper, shared>>

\* the peer of session h stops taking data: writes to the channel block
Stall(h) ==
    /\ hs[h].pc = "input"
    /\ ~hs[h].stalled
    /\ ~hs[h].broken
    /\ hs' = [hs EXCEPT ![h].stalled = TRUE]
    /\ UNCHANGED <<mgrVars, loop, sink, ticks, logVars, up, stopper, shared>>

HandlerStep(h) ==
    \/ \E pty \in PtyDims, floorTile \in FloorTileIDs : Start(h, pty, floorTile)
    \/ \E resp \in Responses : DetectAndInit(h, resp)
    \/ SetTerminalConfig(h)
    \/ StartAnimation(h)
    \/ UploadImages(h)
    \/ \E count \in AddFishCounts, r \in SpawnRands : AddFish(h, count, r)
    \/ \E button \in SpecButtons, cell \in ClickCells, a \in SpecAngles, jit \in SpecJitters :
          ProcessMouse(h, button, cell[1], cell[2], a, jit)
    \/ Close(h)
    \/ CloseReset(h)

LoopStep ==
    \/ LoopInit
    \/ LoopStop
    \/ LoopTick
    \/ UBSnapshot
    \/ UBUpdate
    \/ UBRender
    \/ UBFloor
    \/ UBStatus
    \/ UBWrite

Next ==
    \/ \E h \in Handlers : HandlerStep(h)
    \/ LoopStep

Spec == Init /\ [][Next]_vars

(***************************************************************************)
(* The fish model: two sessions are registered, each with its fish, and    *)
(* the epoch's config is set; the steps are whole ticks (no handler runs   *)
(* during a tick) and mouse clicks, with wider inputs than the concurrent  *)
(* model draws.                                                            *)
(***************************************************************************)
\* the capabilities of the fish model: a small canvas, a canvas narrower and
\* lower than the sprite, and the default 80 x 24 grid of 8 x 16 cells
FishConfigs ==
    { TerminalConfig(10, 8, 8, 16), TerminalConfig(6, 5, 8, 16),
      TerminalConfig(DefaultColumns, DefaultRows, DefaultCellWidth, DefaultCellHeight) }

\* the random numerators NewFish draws in the fish model
FishRands == { <<0, 0, 0, 1, 1>>, <<3, 3, 3, 3, 2>>, <<3, 1, 3, 1, 5>> }

\* the jitter of the three bubbles of a click, in sub-pixels
FishJitters == { <<0, 0, 0>>, <<-19, 3, 19>> }

\* the button bytes a mouse frame may carry: 32 is left-button-down, 35 is
\* a release
FishButtonBytes == {32, 35}

\* processInput: button := int(data[3]) - 32
DecodeButton(b) == b - 32

\* the buttons a mouse frame may carry: 0 is left-button-down
FishButtons == { DecodeButton(b) : b \in FishButtonBytes }

\* the state after the sessions 1 and 2 have started on an empty manager
\* under config, with r1 and r2 the random draws of their fish
AfterStart(config, r1, r2) ==
    LET w == config.Columns * config.CellWidth
        h == config.Rows * config.CellHeight
    IN  /\ mu = 0
        /\ connections = [c \in {1, 2} |-> [FishIDs |-> << c >>, Stream |-> c]]
        /\ fish = {1, 2}
        /\ fishObj = [id \in {1, 2} |->
                        NewFish(id, id, w, h, config.CellWidth, config.CellHeight,
                                (IF id = 1 THEN r1 ELSE r2)[1],
                                (IF id = 1 THEN r1 ELSE r2)[2],
                                (IF id = 1 THEN r1 ELSE r2)[3],
                                (IF id = 1 THEN r1 ELSE r2)[4],
                                (IF id = 1 THEN r1 ELSE r2)[5])]
        /\ termConfig = config
        /\ animationStop = StopChan
        /\ stopClosed = FALSE
        /\ animationWg = 1
        /\ fishCounter = 2
        /\ connCounter = 2
        /\ aquarium = [FloorTileID |-> 0, FloorRendered |-> FALSE]
        /\ loop = [NoLoop EXCEPT !.stopChan = StopChan, !.pc = "select"]
        /\ hs = [x \in Handlers |->
                    [NewHandler EXCEPT !.pc = "input", !.running = TRUE, !.connID = x,
                                       !.termColumns = config.Columns,
                                       !.termRows = config.Rows,
                                       !.cellWidth = config.CellWidth,
                                       !.cellHeight = config.CellHeight,
                                       !.config = config,
                                       !.isFirst = (x = 1),
                                       !.detect = "response"]]
        /\ sink = [x \in Handlers |-> << "setup", "query", "upload" >>]
        /\ ticks = 0
        /\ lastRender = << >>
        /\ clickLog = NoClick
        /\ up = NoUpload
        /\ stopper = NoStop
        /\ shared = NoShared

FishInit ==
    \E config \in FishConfigs, r1 \in FishRands, r2 \in FishRands :
        AfterStart(config, r1, r2)

\* the loop of updateAndBroadcast over the copied fish: Update then Render
\* of each; spawns[id] is the bubble spawn outcome for fish id
RECURSIVE UpdateAndRenderAll(_, _, _, _, _, _)
UpdateAndRenderAll(todo, objs, lr, config, deltaTime, spawns) ==
    IF todo = {} THEN [objs |-> objs, lr |-> lr]
    ELSE LET id == CHOOSE x \in todo : TRUE
             updated == FishUpdate(objs[id], config, deltaTime, spawns[id])
             r == FishRender(updated, << >>, config)
         IN  UpdateAndRenderAll(todo \ {id}, [objs EXCEPT ![id] = r.fish],
                                RecordRender(lr, id, r.buf), config, deltaTime, spawns)

\* one whole updateAndBroadcast with no other goroutine running meanwhile
FishTick(deltaTime, spawns) ==
    /\ ticks < MaxFishTicks
    /\ mu = 0
    /\ termConfig # Nil
    /\ ConnIDs # {}
    /\ LET r == UpdateAndRenderAll(fish, fishObj, lastRender, termConfig, deltaTime, spawns)
       IN  /\ fishObj' = r.objs
           /\ lastRender' = r.lr
    /\ ticks' = ticks + 1
    /\ aquarium' = [aquarium EXCEPT !.FloorRendered = TRUE]
    /\ sink' = [h \in Handlers |-> IF sink[h][Len(sink[h])] = "tick" THEN sink[h]
                                   ELSE Append(sink[h], "tick")]
    /\ UNCHANGED <<mu, connections, fish, termConfig, animationStop, stopClosed,
                   animationWg, fishCounter, connCounter, loop, hs, clickLog, up, stopper, shared>>

\* the pixel origin of the placement Render emits for f: the cell and the
\* offset inside the cell
RenderedX(f, config) ==
    (TruncDiv(f.PosX, SubPx * config.CellWidth) + 1 - 1) * config.CellWidth
        + GoMod(ToInt(f.PosX), config.CellWidth)

RenderedY(f, config) ==
    (TruncDiv(f.PosY + BobbingOffset(f) * SubPx, SubPx * config.CellHeight) + 1 - 1)
            * config.CellHeight
        + GoMod(ToInt(f.PosY + BobbingOffset(f) * SubPx), config.CellHeight)

\* whether the pixel <<x, y>> lies in the sprite rectangle Render draws f in
InRenderedRect(f, config, x, y) ==
    /\ RenderedX(f, config) <= x /\ x < RenderedX(f, config) + ImagePixelWidth
    /\ RenderedY(f, config) <= y /\ y < RenderedY(f, config) + ImagePixelHeight

\* the cells clicked in the fish model: for each fish the cells of the
\* corners of its sprite and the cells next to them
FishClickCells ==
    UNION { { << TruncDiv(RenderedX(fishObj[id], termConfig) + dx, termConfig.CellWidth) + 1,
                 TruncDiv(RenderedY(fishObj[id], termConfig) + dy, termConfig.CellHeight) + 1 >> :
                dx \in {0, ImagePixelWidth + termConfig.CellWidth},
                dy \in {0, ImagePixelHeight + termConfig.CellHeight} } : id \in fish }

\* a mouse frame of session connID reaches HandleMouseClick
FishClick(connID, button, col, row, randomAngle, jit) ==
    /\ connID \in ConnIDs
    /\ clickLog.n < MaxClicks
    /\ HandleMouseClick(connID, button, col, row, randomAngle, jit)

FishNext ==
    \/ \E deltaTime \in 1..MaxDelta, spawns \in [fish -> BOOLEAN] : FishTick(deltaTime, spawns)
    \/ \E connID \in ConnIDs, button \in FishButtons, cell \in FishClickCells,
          a \in angles, jit \in FishJitters :
          FishClick(connID, button, cell[1], cell[2], a, jit)

FishSpec == FishInit /\ [][FishNext]_vars

(***************************************************************************)
(* The manager model: the exported methods of aquarium.Manager called on   *)
(* a manager with two registered sessions.  The connection handler calls   *)
(* AddFish once per session; here AddFish is called again for a registered *)
(* session, so that a session may own several fish, as the manager's       *)
(* interface allows, and then ticks and clicks follow.                     *)
(***************************************************************************)
\* a further call of Manager.AddFish(connID, count)
ManagerAddFish(connID, count, r) ==
    /\ mu = 0
    /\ fishCounter < MaxFish
    /\ clickLog.n = 0
    /\ AddFishBody(connID, count, r)
    /\ UNCHANGED <<mu, termConfig, animationStop, stopClosed, animationWg, connCounter,
                   aquarium, loop, hs, sink, ticks, logVars, up, stopper, shared>>

ManagerInit ==
    \E r1 \in FishRands, r2 \in FishRands :
        AfterStart(TerminalConfig(10, 8, 8, 16), r1, r2)

ManagerNext ==
    \/ \E connID \in ConnIDs, count \in AddFishCounts, r \in FishRands :
          ManagerAddFish(connID, count, r)
    \/ \E spawns \in [fish -> {FALSE}] : FishTick(1, spawns)
    \/ \E connID \in ConnIDs, button \in FishButtons, cell \in FishClickCells,
          a \in angles, jit \in FishJitters :
          FishClick(connID, button, cell[1], cell[2], a, jit)

ManagerSpec == ManagerInit /\ [][ManagerNext]_vars

(***************************************************************************)
(* The input model: handleInput of two registered sessions reads chunks    *)
(* from their channels and hands each chunk to processInput.               *)
(***************************************************************************)
\* the chunks a channel read may return: a left-button-down frame and a
\* release frame at cell (1, 1), a pointer frame cut after 5 bytes, the
\* cursor-up sequence, the cursor-up sequence followed by three more bytes,
\* a lone ESC, "q" and Ctrl+C
Chunks ==
    { <<27, 91, 77, 32, 33, 33>>, <<27, 91, 77, 35, 33, 33>>,
      <<27, 91, 77, 32, 33>>, <<27, 91, 65>>, <<27, 91, 65, 32, 33, 33>>,
      <<27>>, <<113>>, <<3>> }

\* processInput with every chunk of six bytes or more that starts with ESC
\* taken for a mouse frame
IsMouseFrameAnyEscape(data) == Len(data) >= 6 /\ data[1] = 27

\* processInput: len(data) >= 6 && data[0] == 0x1b && data[1] == '[' &&
\* data[2] == 'M'
IsMouseFrame(data) ==
    Len(data) >= 6 /\ data[1] = 27 /\ data[2] = 91 /\ data[3] = 77

\* processInput: the call a chunk leads to
processInput(data) ==
    IF Len(data) = 1 /\ data[1] \in {3, 4, 113, 81}
    THEN [call |-> "Close"]
    ELSE IF IsMouseFrame(data)
    THEN [call |-> "HandleMouseClick", button |-> DecodeButton(data[4]),
          col |-> data[5] - 32, row |-> data[6] - 32]
    ELSE [call |-> "none"]

\* handleInput: h.channel.Read(buf) returns n > 0 bytes
ReadInput(h, data) ==
    /\ hs[h].pc = "input"
    /\ hs[h].running
    /\ hs[h].chunk = << >>
    /\ hs' = [hs EXCEPT ![h].chunk = data]
    /\ UNCHANGED <<mgrVars, fishVars, loop, sink, ticks, logVars, up, stopper, shared>>

\* handleInput: h.processInput(buf[:n])
ProcessInput(h, randomAngle, jit) ==
    /\ hs[h].pc = "input"
    /\ hs[h].chunk # << >>
    /\ LET r == processInput(hs[h].chunk)
       IN  CASE r.call = "Close" -> Close(h)
             [] r.call = "HandleMouseClick" ->
                  /\ clickLog.n < MaxClicks
                  /\ HandleMouseClickBody(hs[h].connID, r.button, r.col, r.row,
                                          randomAngle, jit)
                  /\ hs' = [hs EXCEPT ![h].chunk = << >>, ![h].handled = hs[h].chunk]
             [] OTHER ->
                  /\ hs' = [hs EXCEPT ![h].chunk = << >>, ![h].handled = hs[h].chunk]
                  /\ UNCHANGED <<mgrVars, fishVars, loop, sink, ticks, logVars, up, stopper, shared>>

InputNext ==
    \/ \E h \in Handlers, data \in Chunks : ReadInput(h, data)
    \/ \E h \in Handlers, a \in angles, jit \in FishJitters : ProcessInput(h, a, jit)
    \/ \E h \in Handlers : CloseReset(h)
    \/ LoopStop

InputSpec == ManagerInit /\ [][InputNext]_vars

(***************************************************************************)
(* Properties.                                                             *)
(***************************************************************************)
\* no RemoveConnection is waiting for the animation loop
NoRemoveInProgress == \A h \in Handlers : hs[h].pc # "wgwait"

\* C1: Epoch reset.  Whenever the session count is 0 and no RemoveConnection
\* is still running, the fish table is empty, the terminal config is nil and
\* no animation loop exists (no stop channel, no goroutine), so the next
\* session finds GetTerminalConfig() == nil and negotiates again.
C1_EpochReset ==
    (ConnIDs = {} /\ NoRemoveInProgress) =>
        /\ fish = {}
        /\ termConfig = Nil
        /\ animationStop = Nil
        /\ animationWg = 0
        /\ loop.pc = "none"

\* C1 witness: an epoch with a running loop has ended, and a session that
\* has not started yet is left to open the next one
C1_Witness ==
    /\ ConnIDs = {}
    /\ NoRemoveInProgress
    /\ \E h \in Handlers : hs[h].pc = "closed" /\ "tick" \in { sink[h][j] : j \in DOMAIN sink[h] }
    /\ \E h \in Handlers : hs[h].pc = "new"

(***************************************************************************)
(* The upload model: one call of Handler.uploadImage(data, imageID), one   *)
(* step per iteration of its loop.  A byte is a number 0..255 and a base64 *)
(* character is its index 0..63 in the alphabet, 64 for the padding "=".   *)
(***************************************************************************)
\* the bytes of an image file of n bytes
FileBytes(n, seed) == [k \in 1..n |-> (seed + 37 * k) % 256]

\* base64.StdEncoding.EncodeToString
EncodeToString(data) ==
    LET n == Len(data)
        byte(k) == IF k <= n THEN data[k] ELSE 0
        group(g) == byte(3 * g + 1) * 65536 + byte(3 * g + 2) * 256 + byte(3 * g + 3)
        char(j) ==
            LET g == (j - 1) \div 4
                k == (j - 1) % 4
            IN  IF 3 * g + k > n THEN 64
                ELSE CASE k = 0 -> group(g) \div 262144
                       [] k = 1 -> (group(g) \div 4096) % 64
                       [] k = 2 -> (group(g) \div 64) % 64
                       [] OTHER -> group(g) % 64
    IN  [j \in 1..(4 * ((n + 2) \div 3)) |-> char(j)]

\* the number of bytes one full chunk of base64 text encodes
chunkBytes == (chunkSize \div 4) * 3

\* the file sizes of the upload model: near nothing and near every whole
\* number of chunks up to MaxChunks
FileSizes ==
    (0..Slack) \cup { k * chunkBytes + d : k \in 1..MaxChunks, d \in (0 - Slack)..Slack }

\* the image ids uploadImages passes: a fish variant and a floor tile
UploadIDs == {1, 2, 10}

UploadInit ==
    /\ InitManager
    /\ \E n \in FileSizes, seed \in {0, 101}, imageID \in UploadIDs :
          up = [pc |-> "loop", data |-> FileBytes(n, seed), imageID |-> imageID,
                base64Data |-> EncodeToString(FileBytes(n, seed)),
                i |-> 0, frames |-> << >>]

\* hasMore with the comparison made inclusive
hasMoreInclusive(i, base64Data) == i + chunkSize <= Len(base64Data)

\* uploadImage: hasMore := i+chunkSize < len(base64Data)
hasMore(i, base64Data) == i + chunkSize < Len(base64Data)

\* the chunk cut one character short
chunkShort(i, base64Data) ==
    SubSeq(base64Data, i + 1, Min(i + chunkSize, Len(base64Data)) - 1)

\* uploadImage: chunk := base64Data[i:min(i+chunkSize, len(base64Data))]
chunk(i, base64Data) ==
    SubSeq(base64Data, i + 1, Min(i + chunkSize, Len(base64Data)))

btoi(b) == IF b THEN 1 ELSE 0

\* one iteration of the loop of uploadImage: the frame written to the
\* channel is kept as its control keys and its payload
UploadChunk ==
    /\ up.pc = "loop"
    /\ up.i < Len(up.base64Data)
    /\ LET isFirst == up.i = 0
           command == IF isFirst
                      THEN [a |-> "t", f |-> 100, i |-> up.imageID,
                            m |-> btoi(hasMore(up.i, up.base64Data)), q |-> 1]
                      ELSE [a |-> "", f |-> 0, i |-> 0,
                            m |-> btoi(hasMore(up.i, up.base64Data)), q |-> 0]
       IN  up' = [up EXCEPT !.frames = Append(@, [command |-> command,
                                                  payload |-> chunk(up.i, up.base64Data)]),
                            !.i = @ + chunkSize]
    /\ UNCHANGED <<mgrVars, loop, hs, sink, ticks, logVars, stopper, shared>>

\* the loop condition i < len(base64Data) fails and uploadImage returns
UploadReturn ==
    /\ up.pc = "loop"
    /\ up.i >= Len(up.base64Data)
    /\ up' = [up EXCEPT !.pc = "done"]
    /\ UNCHANGED <<mgrVars, loop, hs, sink, ticks, logVars, stopper, shared>>

UploadNext == UploadChunk \/ UploadReturn

UploadSpec == UploadInit /\ [][UploadNext]_vars

(***************************************************************************)
(* The teardown model: one session whose handler may be started again by a *)
(* further shell request and closed by any of its callers.                 *)
(***************************************************************************)
\* the one session of the single-session models
Solo == CHOOSE h \in Handlers : TRUE

TeardownNext ==
    \/ HandlerStep(Solo)
    \/ \E floorTile \in FloorTileIDs : Restart(Solo, floorTile)
    \/ CloseNoOp(Solo)
    \/ LoopStep

TeardownSpec == Init /\ [][TeardownNext]_vars

(***************************************************************************)
(* The broadcast model: two sessions are registered, each with its fish;   *)
(* the animation loop runs its ticks step by step while sessions stall,    *)
(* lose their channel and close.  The goroutines are scheduled fairly and  *)
(* the Read of handleInput returns once the channel is closed.             *)
(***************************************************************************)
BroadcastInit ==
    \E r \in SpawnRands : AfterStart(TerminalConfig(10, 8, 8, 16), r, r)

\* handleInput returns on a read error without calling Close
ReadErrorReturns(h) ==
    /\ hs[h].broken
    /\ UNCHANGED vars

\* handleInput: channel.Read returns an error and Close is called
ReadError(h) ==
    /\ hs[h].broken
    /\ Close(h)

BroadcastLoop ==
    \/ LoopStop
    \/ LoopTickUpTo(MaxRounds)
    \/ UBSnapshot
    \/ UBUpdate
    \/ UBRender
    \/ UBFloor
    \/ UBStatus
    \/ UBWrite
    \/ UBWriteUnblocked

BroadcastNext ==
    \/ BroadcastLoop
    \/ \E h \in Handlers : Close(h)
    \/ \E h \in Handlers : CloseReset(h)
    \/ \E h \in Handlers : Break(h)
    \/ \E h \in Handlers : Stall(h)

BroadcastSpec ==
    /\ BroadcastInit
    /\ [][BroadcastNext]_vars
    /\ WF_vars(BroadcastLoop)
    /\ \A h \in Handlers : WF_vars(ReadError(h)) /\ WF_vars(CloseReset(h))

(***************************************************************************)
(* The single-session model with fair scheduling: the goroutine of the     *)
(* animation loop takes a step whenever it can, and so does a              *)
(* RemoveConnection whose animationWg.Wait() can return.                   *)
(***************************************************************************)
FairNext ==
    \/ HandlerStep(Solo)
    \/ LoopStep

FairSpec ==
    /\ Init
    /\ [][FairNext]_vars
    /\ WF_vars(LoopStep)
    /\ WF_vars(CloseReset(Solo))

(***************************************************************************)
(* The negotiation model: one session, and the goroutine that              *)
(* detectTerminalAndInit starts to run readTerminalResponse.  After the    *)
(* timeout this goroutine and handleInput both read the channel.           *)
(***************************************************************************)
\* whether the goroutine of readTerminalResponse is in channel.Read
ReaderWaiting(h) == hs[h].reader

\* readTerminalResponse: channel.Read returns a frame the session has sent
\* (a mouse frame, a key); it is appended to responseBuffer, matches no
\* response, and the loop reads again.  The frame never reaches processInput.
ReaderTakesInput(h) ==
    /\ hs[h].pc = "input"
    /\ ReaderWaiting(h)
    /\ hs[h].lost < MaxLost
    /\ hs' = [hs EXCEPT ![h].lost = @ + 1]
    /\ UNCHANGED <<mgrVars, loop, sink, ticks, logVars, up, stopper, shared>>

NegotiationNext ==
    \/ HandlerStep(Solo)
    \/ ReaderTakesInput(Solo)
    \/ LoopStep

NegotiationSpec == Init /\ [][NegotiationNext]_vars

(***************************************************************************)
(* The spawn model: two sessions start, initialize and close while the     *)
(* animation loop runs.  A handler that is inside Start goes on to the end *)
(* of initializeAquarium: its waits are bounded (the select of             *)
(* detectTerminalAndInit by the 2 s timer, the manager lock by the short   *)
(* critical sections of the other goroutines).                             *)
(***************************************************************************)
\* the steps of Handler.Start after the registration
InitStep(h) ==
    \/ \E resp \in Responses : DetectAndInit(h, resp)
    \/ SetTerminalConfig(h)
    \/ StartAnimation(h)
    \/ UploadImages(h)
    \/ \E count \in AddFishCounts, r \in SpawnRands : AddFish(h, count, r)

SpawnNext ==
    \/ \E h \in Handlers, pty \in PtyDims, floorTile \in FloorTileIDs : Start(h, pty, floorTile)
    \/ \E h \in Handlers : InitStep(h)
    \/ \E h \in Handlers : Close(h)
    \/ \E h \in Handlers : CloseReset(h)
    \/ LoopStep

SpawnSpec ==
    /\ Init
    /\ [][SpawnNext]_vars
    /\ \A h \in Handlers : WF_vars(InitStep(h))

\* C2: a RemoveConnection of the last session that has closed the stop
\* channel and waits for the animation loop always eventually returns
C2_RemoveReturns ==
    \A h \in Handlers : (hs[h].pc = "wgwait") ~> (hs[h].pc = "closed")

\* C3: a click changes a fish only while the tick is outside its Update and
\* Render loop over a snapshot that holds this fish (the two are serialized
\* by the manager lock)
C3_ClickExcludesTick ==
    [][ \A id \in fish :
          (clickLog'.n # clickLog.n /\ fishObj'[id] # fishObj[id])
              => ~(loop.pc \in {"update", "render"} /\ id \in loop.fishData) ]_vars

\* the pixel position HandleMouseClick derives from the logged click
ClickX == (clickLog.col - 1) * termConfig.CellWidth
ClickY == (clickLog.row - 1) * termConfig.CellHeight

\* the logged click is a left-button click inside the sprite rectangle of
\* fish id as rendered from the state f
ClickInside(f) ==
    /\ clickLog.n > 0
    /\ clickLog.button = 0
    /\ termConfig # Nil
    /\ InRenderedRect(f, termConfig, ClickX, ClickY)

\* C4: a left-button click of a session inside the rendered rectangle of a
\* fish of another session changes neither the velocity nor the bubbles of
\* that fish, and nothing is written to the clicking session
C4_NonOwnerClick ==
    [][ \A id \in fish :
          (/\ clickLog'.n = clickLog.n + 1
           /\ clickLog'.button = 0
           /\ termConfig # Nil
           /\ InRenderedRect(fishObj[id], termConfig,
                             (clickLog'.col - 1) * termConfig.CellWidth,
                             (clickLog'.row - 1) * termConfig.CellHeight)
           /\ fishObj[id].OwnerID # clickLog'.connID)
          => /\ fishObj'[id].VelX = fishObj[id].VelX
             /\ fishObj'[id].VelY = fishObj[id].VelY
             /\ fishObj'[id].Bubbles = fishObj[id].Bubbles
             /\ sink' = sink ]_vars

\* a non-owner has clicked inside the rendered rectangle of a moving fish
C4_Witness ==
    \E id \in fish :
        /\ ClickInside(fishObj[id])
        /\ fishObj[id].OwnerID # clickLog.connID
        /\ fishObj[id].VelX # 0
        /\ clickLog.connID \in ConnIDs

\* C5: a left-button click of a session inside the rendered rectangle of its
\* own fish appends exactly 3 bubbles, each 5 pixels above the one before
\* starting 2 pixels above the fish, and rotates the velocity by one of the
\* angles 90, 180 and 260 degrees
C5_OwnerClick ==
    [][ \A id \in fish :
          (/\ clickLog'.n = clickLog.n + 1
           /\ clickLog'.button = 0
           /\ termConfig # Nil
           /\ InRenderedRect(fishObj[id], termConfig,
                             (clickLog'.col - 1) * termConfig.CellWidth,
                             (clickLog'.row - 1) * termConfig.CellHeight)
           /\ fishObj[id].OwnerID = clickLog'.connID)
          => LET old == fishObj[id]
                 new == fishObj'[id]
                 n == Len(old.Bubbles)
             IN  /\ Len(new.Bubbles) = n + 3
                 /\ SubSeq(new.Bubbles, 1, n) = old.Bubbles
                 /\ \A i \in 1..3 :
                       new.Bubbles[n + i].Y = old.PosY - (2 + 5 * (i - 1)) * SubPx
                 /\ \E a \in {90, 180, 260} :
                       << new.VelX, new.VelY >> = Rotate(old.VelX, old.VelY, a)
                 /\ new.PosX = old.PosX /\ new.PosY = old.PosY ]_vars

\* the owner has clicked inside the rendered rectangle of its fish, which
\* now carries the three bubbles of the click
C5_Witness ==
    \E id \in fish :
        /\ ClickInside(fishObj[id])
        /\ fishObj[id].OwnerID = clickLog.connID
        /\ Len(fishObj[id].Bubbles) >= 3
        /\ fishObj[id].VelX # 0

\* the canvas limits of Fish.Update, in sub-pixels
LimitX == (termConfig.Columns * termConfig.CellWidth - ImagePixelWidth) * SubPx
LimitY == (UpdateUsableHeight(termConfig) - ImagePixelHeight) * SubPx

\* C6 as stated: after Fish.Update, 0 <= PosX <= canvasWidth - 64 and
\* 0 <= PosY <= usableHeight - 36, for every capability
C6_Original ==
    ticks > 0 =>
        \A id \in fish :
            /\ 0 <= fishObj[id].PosX /\ fishObj[id].PosX <= LimitX
            /\ 0 <= fishObj[id].PosY /\ fishObj[id].PosY <= LimitY

\* the position p on an axis whose limit is l (canvas size minus sprite
\* size): inside 0..l when the sprite fits, else at 0 or at the negative l
AxisClamped(p, l) == IF l >= 0 THEN 0 <= p /\ p <= l ELSE p \in {l, 0}

\* C6: after Fish.Update, on each axis, the position lies in 0..limit when
\* the canvas holds the sprite (limit >= 0), and is 0 or the negative limit
\* when it does not; limit is canvasWidth - 64 or usableHeight - 36
C6_Clamped ==
    ticks > 0 =>
        \A id \in fish :
            /\ AxisClamped(fishObj[id].PosX, LimitX)
            /\ AxisClamped(fishObj[id].PosY, LimitY)

\* a fish has been clamped to the right wall of a canvas that holds the
\* sprite and swims left
C6_Witness ==
    /\ ticks > 0
    /\ \E id \in fish :
          LimitX > 0 /\ fishObj[id].PosX = LimitX /\ fishObj[id].VelX < 0

\* C7: when the placement of a render shows another image than the placement
\* of the previous render of the same fish, the output of the render holds a
\* deletion of the old image id under the fish's placement id before the
\* placement command
C7_DeleteBeforePlace ==
    \A id \in DOMAIN lastRender :
        LET out == lastRender[id].out
            prev == lastRender[id].prev
        IN  (prev # 0 /\ prev # PlacedImage(out)) =>
                \E i, j \in 1..Len(out) :
                    /\ i < j
                    /\ out[i].t = "delete" /\ out[i].i = prev /\ out[i].p = id
                    /\ out[j].t = "place" /\ out[j].p = id
                    /\ \A k \in 1..Len(out) : out[k].t = "place" => k = j

\* a fish away from the walls, so not turned by a bounce in this tick, is
\* rendered with another variant than in its previous render after a click
C7_Witness ==
    /\ clickLog.n > 0
    /\ \E id \in fish \cap DOMAIN lastRender :
          /\ lastRender[id].prev # 0
          /\ lastRender[id].prev # PlacedImage(lastRender[id].out)
          /\ 0 < fishObj[id].PosX /\ fishObj[id].PosX < LimitX
          /\ 0 < fishObj[id].PosY /\ fishObj[id].PosY < LimitY

\* the frames are concatenated in order
RECURSIVE Payloads(_, _)
Payloads(frames, k) ==
    IF k > Len(frames) THEN << >> ELSE frames[k].payload \o Payloads(frames, k + 1)

\* C8: among the frames uploadImage has emitted when it returns, the last
\* one carries m=0 and every frame before it carries m=1
C8_FinalFrameFlag ==
    /\ \A k \in 1..(Len(up.frames) - 1) : up.frames[k].command.m = 1
    /\ up.pc = "done" =>
          \A k \in 1..Len(up.frames) : up.frames[k].command.m = 0 <=> k = Len(up.frames)

\* an upload whose base64 text is a whole number of chunks, more than one,
\* has returned
C8_Witness ==
    /\ up.pc = "done"
    /\ Len(up.base64Data) = 2 * chunkSize
    /\ Len(up.frames) = 2
    /\ up.frames[2].command.m = 0

\* C9: when uploadImage returns, the payloads of its frames in order are the
\* base64 encoding of the image, and no payload is longer than 4096
C9_RoundTrip ==
    /\ \A k \in 1..Len(up.frames) : Len(up.frames[k].payload) <= 4096
    /\ up.pc = "done" => Payloads(up.frames, 1) = EncodeToString(up.data)

\* an upload of more than one chunk whose last chunk is not full has returned
C9_Witness ==
    /\ up.pc = "done"
    /\ Len(up.frames) >= 2
    /\ Len(up.base64Data) % chunkSize # 0
    /\ Len(up.data) % 3 # 0

\* C10: when the session that opened the epoch got no response to its size
\* query, the epoch's capability is 80 columns x 24 rows of 8 x 16 pixel
\* cells from the time the session has passed its initialisation
C10_TimeoutDefault ==
    \A h \in Handlers :
        (/\ hs[h].isFirst
         /\ hs[h].detect = "timeout"
         /\ hs[h].pc \in {"startanim", "upload", "addfish", "input"})
        => termConfig = TerminalConfig(80, 24, 8, 16)

\* C11: the size query is written only to the sink of the session that
\* opened the epoch
C11_QueryOnlyToFirst ==
    \A h \in Handlers :
        (\E j \in DOMAIN sink[h] : sink[h][j] = "query") => hs[h].isFirst

\* C12: once the capability is set, a step leaves it as it is or ends the
\* epoch (unsets it)
C12_CapabilityImmutable ==
    [][ termConfig # Nil => (termConfig' = termConfig \/ termConfig' = Nil) ]_vars

\* C13: no Close panics, and the terminal cleanup of a session is written
\* at most once
C13_CloseOnce ==
    \A h \in Handlers :
        /\ hs[h].pc # "panic"
        /\ Cardinality({ j \in DOMAIN sink[h] : sink[h][j] = "cleanup" }) <= 1

\* the step writes a tick's output to the sink of session h
TickDelivered(h) == sink'[h] = Append(sink[h], "tick")

\* the step is a Render call of fish id
Rendered(id) ==
    /\ id \in DOMAIN lastRender'
    /\ id \notin DOMAIN lastRender \/ lastRender'[id] # lastRender[id]

\* C14: a fish is rendered only after its Update of the same tick; a tick's
\* output is written to a sink only when every fish of the tick's snapshot
\* has been updated and rendered; a tick starts only when the loop is back
\* at its select, with no write of the previous tick left
C14_TickOrder ==
    [][ /\ \A id \in DOMAIN lastRender' :
              Rendered(id) => loop.pc = "render" /\ loop.cur = id /\ id \notin loop.todo
        /\ \A h \in Handlers :
              TickDelivered(h) =>
                  /\ loop.pc \in {"write", "blocked"}
                  /\ loop.todo = {} /\ loop.cur = 0
                  /\ loop.fishData \subseteq DOMAIN lastRender
        /\ ticks' # ticks =>
              loop.pc = "select" /\ loop.connData = {} /\ loop.todo = {} ]_vars

\* in the second tick both fish have been updated and rendered, one session
\* has this tick's output and the other is still to be written
C14_Witness ==
    /\ ticks = 2
    /\ loop.pc = "write"
    /\ Cardinality(loop.fishData) = 2
    /\ Cardinality(loop.connData) = 1
    /\ \E h \in Handlers : Len(SelectSeq(sink[h], LAMBDA x : x = "tick")) = 2

\* C15: while a write of a tick's output is blocked, the manager lock is
\* free and no RemoveConnection is held up, so that AddConnection,
\* RemoveConnection and HandleMouseClick can complete
C15_OthersCompleteDuringWrite ==
    loop.pc = "blocked" =>
        /\ mu = 0
        /\ \A h \in Handlers : hs[h].pc # "wgwait"

\* C16: when a write of a tick's output blocks, every other session of the
\* tick's snapshot already has the output: none is left waiting behind it
C16_NoneBehindBlockedWrite ==
    loop.pc = "blocked" => loop.connData \subseteq {loop.w}

\* the step is the return of conn.Write with an error on the stream of
\* session h: h joins the sessions whose write of this tick failed
WriteFailed(h) ==
    /\ loop.pc \in {"write", "blocked"}
    /\ h \in loop.connData
    /\ h \notin loop.failed
    /\ h \in loop'.failed

\* C17: a write that returns an error changes no sink, fish, capability or
\* session; the session is not written again in this tick; the loop goes on
\* with the streams that are left, and the tick returns to the select of the
\* loop only from the write to the last stream of its snapshot
C17_WriteFailureNonFatal ==
    [][ /\ \A h \in Handlers :
              WriteFailed(h) =>
                  /\ sink' = sink /\ fish' = fish /\ termConfig' = termConfig
                  /\ connections' = connections /\ hs' = hs
                  /\ IF loop.connData = {h}
                     THEN loop'.pc = "select" /\ loop'.stopChan = loop.stopChan
                     ELSE loop'.pc = "write" /\ loop'.connData = loop.connData \ {h}
        /\ (loop.pc \in {"write", "blocked"} /\ loop'.pc = "select") =>
              Cardinality(loop.connData) = 1 ]_vars

\* the number of tick outputs session h has been sent
TicksOf(h) == Len(SelectSeq(sink[h], LAMBDA x : x = "tick"))

\* two ticks are over; a session that is still registered had its channel
\* closed and missed an output that the other session got, twice
C17_Witness ==
    /\ ticks = 2
    /\ loop.pc = "select"
    /\ \E h, g \in Handlers :
          /\ hs[h].broken /\ hs[h].connID \in ConnIDs /\ h \in loop.failed
          /\ TicksOf(h) < TicksOf(g) /\ TicksOf(g) = 2

\* C18: a session to which a write of a tick failed is eventually
\* unregistered: it is dropped from the registry and its fish are removed
C18_FailedSessionRemoved ==
    \A h \in Handlers :
        (h \in loop.failed /\ hs[h].connID \in ConnIDs)
            ~> (/\ hs[h].connID \notin ConnIDs
                /\ \A id \in fish : fishObj[id].OwnerID # hs[h].connID)

\* a session missed a tick's output because its write failed, and has been
\* unregistered before the next tick
C18_Witness ==
    \E h \in Handlers :
        /\ h \in loop.failed
        /\ hs[h].connID \notin ConnIDs
        /\ hs[h].pc = "closed"
        /\ \A id \in fish : fishObj[id].OwnerID # hs[h].connID

FishIDsOf(c) == { connections[c].FishIDs[j] : j \in 1..Len(connections[c].FishIDs) }

\* C20: each fish of the fish table is owned by a registered session, is in
\* that session's FishIDs and in no other session's FishIDs
C20_Ownership ==
    \A id \in fish :
        /\ fishObj[id].OwnerID \in ConnIDs
        /\ id \in FishIDsOf(fishObj[id].OwnerID)
        /\ \A c \in ConnIDs \ {fishObj[id].OwnerID} : id \notin FishIDsOf(c)

\* a session has left with its fish and the fish of the other session, which
\* joined later, is still in the table
C20_Witness ==
    /\ \E h \in Handlers : hs[h].pc = "closed" /\ hs[h].connID = 1
    /\ \E id \in fish : fishObj[id].OwnerID = 2 /\ id = 2

\* the fish of the table that session c owns
FishOwnedBy(c) == { id \in fish : fishObj[id].OwnerID = c }

C22_RemoveOnlyOwn ==
    [][ \A c \in ConnIDs :
          c \notin DOMAIN connections' =>
              /\ \A id \in fish' : fishObj'[id].OwnerID # c
              /\ \A id \in fish :
                    fishObj[id].OwnerID # c =>
                        /\ id \in fish'
                        /\ fishObj'[id].OwnerID = fishObj[id].OwnerID
                        /\ fishObj'[id].PosX = fishObj[id].PosX
                        /\ fishObj'[id].PosY = fishObj[id].PosY
                        /\ fishObj'[id].VelX = fishObj[id].VelX
                        /\ fishObj'[id].VelY = fishObj[id].VelY
                        /\ fishObj'[id].BobbingTime = fishObj[id].BobbingTime
                        /\ fishObj'[id].Bubbles = fishObj[id].Bubbles
              /\ DOMAIN connections' = ConnIDs \ {c}
              /\ \A d \in ConnIDs \ {c} : connections'[d] = connections[d] ]_vars

\* a session has been unregistered and its fish is gone, while the fish of
\* the session that stays, clicked and rendered before, is in the table
C22_Witness ==
    \E h, g \in Handlers :
        /\ hs[h].pc = "closed" /\ hs[h].connID \notin ConnIDs
        /\ FishOwnedBy(hs[h].connID) = {}
        /\ hs[g].pc = "input" /\ hs[g].connID \in ConnIDs
        /\ \E id \in FishOwnedBy(hs[g].connID) :
              id \in DOMAIN lastRender /\ Len(fishObj[id].Bubbles) > 0

\* the fish a step changes the velocity or the bubbles of
Mutated ==
    { id \in fish : \/ fishObj'[id].VelX # fishObj[id].VelX
                    \/ fishObj'[id].VelY # fishObj[id].VelY
                    \/ fishObj'[id].Bubbles # fishObj[id].Bubbles }

\* C23: one call of HandleMouseClick changes the velocity or the bubbles of
\* at most one fish
C23_OneFishPerClick ==
    [][ clickLog'.n # clickLog.n => Cardinality(Mutated) <= 1 ]_vars

\* the clicker owns two fish whose rectangles both hold the clicked pixel;
\* one of them carries the bubbles of the click and the other carries none
C23_Witness ==
    /\ clickLog.n > 0
    /\ clickLog.button = 0
    /\ \E id1, id2 \in FishOwnedBy(clickLog.connID) :
          /\ id1 # id2
          /\ CheckCollision(fishObj[id1], ClickX, ClickY)
          /\ CheckCollision(fishObj[id2], ClickX, ClickY)
          /\ Len(fishObj[id1].Bubbles) = 3
          /\ Len(fishObj[id2].Bubbles) = 0

\* C24: when the first colliding fish a click finds in the order of its
\* iteration is not the clicker's, the click changes no fish
C24_FirstCollisionWins ==
    [][ (/\ clickLog'.n # clickLog.n
         /\ clickLog'.first # 0
         /\ fishObj[clickLog'.first].OwnerID # clickLog'.connID)
        => Mutated = {} ]_vars

\* C25: a pointer frame whose button code is not 0 changes no fish and
\* leaves the fish table, the capability and the session registry as they
\* are
C25_OnlyLeftButton ==
    [][ (clickLog'.n # clickLog.n /\ clickLog'.button # 0) =>
            /\ fishObj' = fishObj
            /\ fish' = fish
            /\ termConfig' = termConfig
            /\ connections' = connections ]_vars

\* a session has sent a release frame with the pointer inside the rendered
\* rectangle of its own fish, which carries no bubble
C25_Witness ==
    /\ clickLog.n > 0
    /\ clickLog.button = 3
    /\ \E id \in FishOwnedBy(clickLog.connID) :
          /\ InRenderedRect(fishObj[id], termConfig, ClickX, ClickY)
          /\ CheckCollision(fishObj[id], ClickX, ClickY)
          /\ fishObj[id].Bubbles = << >>

\* the deltaTime of a tick step, read off the advance of the bob phase
TickDelta(id) == (fishObj'[id].BobbingTime - fishObj[id].BobbingTime) % (4 * BobQ)

\* the position velocity * deltaTime takes fish id to in a tick step
MovedX(id) == fishObj[id].PosX + fishObj[id].VelX * TickDelta(id)
MovedY(id) == fishObj[id].PosY + fishObj[id].VelY * TickDelta(id)

\* C26 as stated: in a tick, a fish that would pass the right (lower)
\* boundary ends on it with a velocity that is not positive, a fish that
\* would pass 0 ends on 0 with a velocity that is not negative, and the
\* magnitude of each velocity component is kept, for every capability
C26_Original ==
    [][ ticks' = ticks + 1 =>
          \A id \in fish :
              /\ MovedX(id) > LimitX => fishObj'[id].VelX <= 0 /\ fishObj'[id].PosX = LimitX
              /\ MovedX(id) < 0 => fishObj'[id].VelX >= 0 /\ fishObj'[id].PosX = 0
              /\ MovedY(id) > LimitY => fishObj'[id].VelY <= 0 /\ fishObj'[id].PosY = LimitY
              /\ MovedY(id) < 0 => fishObj'[id].VelY >= 0 /\ fishObj'[id].PosY = 0
              /\ Abs(fishObj'[id].VelX) = Abs(fishObj[id].VelX)
              /\ Abs(fishObj'[id].VelY) = Abs(fishObj[id].VelY) ]_vars

\* C26: in a tick, a fish that would pass the right (lower) boundary ends on
\* it with a velocity that is not positive; a fish that would pass 0, and
\* not also the right (lower) boundary of a canvas smaller than the sprite,
\* ends on 0 with a velocity that is not negative; the magnitude of each
\* velocity component is kept
C26_Reflection ==
    [][ ticks' = ticks + 1 =>
          \A id \in fish :
              /\ MovedX(id) > LimitX => fishObj'[id].VelX <= 0 /\ fishObj'[id].PosX = LimitX
              /\ (MovedX(id) < 0 /\ MovedX(id) <= LimitX) =>
                    fishObj'[id].VelX >= 0 /\ fishObj'[id].PosX = 0
              /\ MovedY(id) > LimitY => fishObj'[id].VelY <= 0 /\ fishObj'[id].PosY = LimitY
              /\ (MovedY(id) < 0 /\ MovedY(id) <= LimitY) =>
                    fishObj'[id].VelY >= 0 /\ fishObj'[id].PosY = 0
              /\ Abs(fishObj'[id].VelX) = Abs(fishObj[id].VelX)
              /\ Abs(fishObj'[id].VelY) = Abs(fishObj[id].VelY) ]_vars

\* on a canvas that holds the sprite, one fish has been turned at the left
\* wall and one at the top or at the bottom
C26_Witness ==
    /\ ticks > 0
    /\ LimitX > 0 /\ LimitY > 0
    /\ \E id \in fish : fishObj[id].PosX = 0 /\ fishObj[id].VelX > 0
    /\ \E id \in fish :
          \/ (fishObj[id].PosY = 0 /\ fishObj[id].VelY > 0)
          \/ (fishObj[id].PosY = LimitY /\ fishObj[id].VelY < 0)

\* floor(BobbingTime) mod 4 of fish f
BobStep(f) == (f.BobbingTime \div BobQ) % 4

\* the table 0 -> 0, 1 -> 6, 2 -> 12, 3 -> 6
BobTable(step) == CASE step = 0 -> 0 [] step = 1 -> 6 [] step = 2 -> 12 [] OTHER -> 6

\* the top pixel row of the rectangle of f under the tabled bob offset
BobbedTop(f) == ToInt(f.PosY + BobTable(BobStep(f)) * SubPx)

\* the pixel row of the placement in the output of a Render call
PlacedY(out, config) ==
    LET j == CHOOSE k \in 1..Len(out) : out[k].t = "place"
    IN  (out[j - 1].row - 1) * config.CellHeight + out[j].Y

\* C27: the bob offset of every fish is 0, 6 or 12 and is the table's value
\* for floor(BobbingTime) mod 4; the placement of the latest Render and the
\* rectangle CheckCollision tests lie at the position shifted by this
\* offset; the offset changes only in a tick that takes the phase across an
\* integer
C27_SteppedBob ==
    /\ [](\A id \in fish :
            /\ BobbingOffset(fishObj[id]) \in {0, 6, 12}
            /\ BobbingOffset(fishObj[id]) = BobTable(BobStep(fishObj[id]))
            /\ id \in DOMAIN lastRender =>
                  PlacedY(lastRender[id].out, termConfig) = BobbedTop(fishObj[id])
            /\ \A dy \in {-1, 0, ImagePixelHeight, ImagePixelHeight + 1} :
                  CheckCollision(fishObj[id], ToInt(fishObj[id].PosX),
                                 BobbedTop(fishObj[id]) + dy)
                      <=> (0 <= dy /\ dy <= ImagePixelHeight))
    /\ [][ \A id \in fish :
              BobbingOffset(fishObj'[id]) # BobbingOffset(fishObj[id]) =>
                  /\ ticks' = ticks + 1
                  /\ BobStep(fishObj'[id]) # BobStep(fishObj[id]) ]_vars

\* after a tick one fish is rendered 12 pixels below its position and
\* another one is rendered at its position
C27_Witness ==
    /\ ticks > 0
    /\ \E id1, id2 \in fish \cap DOMAIN lastRender :
          /\ BobbingOffset(fishObj[id1]) = 12
          /\ PlacedY(lastRender[id1].out, termConfig) = ToInt(fishObj[id1].PosY) + 12
          /\ BobbingOffset(fishObj[id2]) = 0
          /\ fishObj[id1].PosY > 0

\* floor(x) in pixels for a position x held in sub-pixels
FloorPx(x) == x \div SubPx

\* the cursor and placement commands in the output of a Render call
PlaceOf(out) ==
    LET j == CHOOSE k \in 1..Len(out) : out[k].t = "place"
    IN  [row |-> out[j - 1].row, col |-> out[j - 1].col, X |-> out[j].X, Y |-> out[j].Y]

\* C28: for every rendered fish the offsets of the placement lie inside the
\* cell, the pixel origin the placement encodes is (floor(PosX),
\* floor(PosY + bobOffset)), and this pixel is the top-left corner of the
\* rectangle CheckCollision accepts
C28_ClickRectIsRenderedRect ==
    \A id \in fish \cap DOMAIN lastRender :
        LET f == fishObj[id]
            p == PlaceOf(lastRender[id].out)
            x == (p.col - 1) * termConfig.CellWidth + p.X
            y == (p.row - 1) * termConfig.CellHeight + p.Y
        IN  /\ 0 <= p.X /\ p.X < termConfig.CellWidth
            /\ 0 <= p.Y /\ p.Y < termConfig.CellHeight
            /\ x = FloorPx(f.PosX)
            /\ y = FloorPx(f.PosY + BobbingOffset(f) * SubPx)
            /\ CheckCollision(f, x, y)
            /\ ~CheckCollision(f, x - 1, y)
            /\ ~CheckCollision(f, x, y - 1)

\* C29: a session that got a response of W x H pixels has the cell size
\* (W / columns, H / rows), each rounded to the nearest integer and at
\* least 1
C29_CellSizeRounded ==
    \A h \in Handlers :
        hs[h].detect = "response" =>
            \E resp \in Responses \ {Nil} :
                LET cw == RoundDiv(resp.w, hs[h].termColumns)
                    ch == RoundDiv(resp.h, hs[h].termRows)
                IN  /\ hs[h].cellWidth = (IF cw < 1 THEN 1 ELSE cw)
                    /\ hs[h].cellHeight = (IF ch < 1 THEN 1 ELSE ch)

\* C30: once the negotiation of a session has resolved, by a response or by
\* the timeout, no readTerminalResponse is left reading its channel and no
\* frame of the session has been taken by it
C30_NoLeakedReader ==
    \A h \in Handlers :
        hs[h].detect \in {"response", "timeout"} =>
            /\ ~ReaderWaiting(h)
            /\ hs[h].lost = 0

\* C31: no fish is in the table while the capability is unset, so a session
\* that registered before the capability was set has no fish until then;
\* and such a session comes to own one fish, unless it is unregistered
C31_DeferredSpawn ==
    /\ [](termConfig = Nil => fish = {})
    /\ \A h \in Handlers :
          (hs[h].pc = "detect" /\ termConfig = Nil)
              ~> (\/ hs[h].connID \notin ConnIDs
                  \/ (termConfig # Nil /\ Cardinality(FishOwnedBy(hs[h].connID)) = 1))

\* a session that was not the first to register found the capability unset
\* at the end of its own negotiation, set it, and owns its fish, while the
\* first session has not set the capability yet
C31_Witness ==
    \E h, g \in Handlers :
        /\ hs[g].isFirst /\ hs[g].pc = "setconfig"
        /\ ~hs[h].isFirst /\ hs[h].pc = "input"
        /\ hs[h].connID \in ConnIDs
        /\ Cardinality(FishOwnedBy(hs[h].connID)) = 1

\* the malformed chunks: they start with ESC and are no
\* mouse frame, being shorter than six bytes or not starting with ESC [ M
Malformed(data) ==
    /\ data # << >>
    /\ data[1] = 27
    /\ ~(Len(data) >= 6 /\ data[2] = 91 /\ data[3] = 77)

\* C32: Malformed input ignored.  The step in which processInput handles a
\* chunk that starts with ESC and is a pointer frame of fewer than 6 bytes or
\* an escape sequence without the prefix ESC [ M changes nothing of the
\* manager (sessions, fish, config, loop, lock), writes nothing to any sink
\* and leaves the session registered and running.
C32_MalformedIgnored ==
    [][\A h \in Handlers :
          (Malformed(hs[h].chunk) /\ hs'[h] # hs[h]) =>
              /\ UNCHANGED <<mgrVars, fishVars, loop, sink, ticks>>
              /\ clickLog'.n = clickLog.n
              /\ hs'[h] = [hs[h] EXCEPT !.chunk = << >>, !.handled = hs[h].chunk]
              /\ hs[h].connID \in ConnIDs => hs'[h].connID \in DOMAIN connections']_vars

\* a session has had a cut pointer frame handled and another a foreign
\* escape sequence of six bytes, and both are reading again, still
\* registered, with no click made
C32_Witness ==
    \E h, g \in Handlers :
        /\ hs[h].pc = "input" /\ hs[h].running /\ hs[h].chunk = << >>
        /\ hs[h].handled = <<27, 91, 77, 32, 33>>
        /\ hs[g].pc = "input" /\ hs[g].running /\ hs[g].chunk = << >>
        /\ hs[g].handled = <<27, 91, 65, 32, 33, 33>>
        /\ {hs[h].connID, hs[g].connID} \subseteq ConnIDs
        /\ clickLog.n = 0

\* the y of bubble b after a tick of fish id
RisenY(b, id) == b.Y - BubbleStep * TickDelta(id)

\* the bubbles of fish id that a tick must keep, moved up
KeptBubbles(id) ==
    LET Stays(b) == RisenY(b, id) >= 0
        old == SelectSeq(fishObj[id].Bubbles, Stays)
    IN  [k \in 1..Len(old) |-> [X |-> old[k].X, Y |-> RisenY(old[k], id)]]

\* the cell a bubble at sub-pixel (x, y) is drawn in
BubbleCell(b, config) ==
    [row |-> TruncDiv(b.Y, SubPx * config.CellHeight) + 1,
     col |-> TruncDiv(b.X, SubPx * config.CellWidth) + 1]

\* C33: Bubble expiry and clearing.  In every tick, the bubbles a fish has
\* left are exactly those of its bubbles whose y has not become negative, in
\* their order and moved up (followed by the bubble spawned in the tick, if
\* any); the last cell of every dropped bubble that had been drawn is cleared
\* in the render output of the fish in this tick; and every kept bubble that
\* had been drawn has its previous cell cleared in that output before the
\* text at its new cell.
C33_BubbleExpiry ==
    [][ ticks' = ticks + 1 =>
          \A id \in fish :
              LET old == fishObj[id].Bubbles
                  new == fishObj'[id].Bubbles
                  kept == KeptBubbles(id)
                  out == lastRender'[id].out
              IN  /\ Len(new) \in {Len(kept), Len(kept) + 1}
                  /\ \A k \in 1..Len(kept) :
                        new[k].X = kept[k].X /\ new[k].Y = kept[k].Y
                  /\ \A k \in 1..Len(new) : new[k].Y >= 0
                  /\ \A k \in 1..Len(old) :
                        (old[k].PrevCol > 0 /\ old[k].PrevRow > 0) =>
                            \E i \in 1..Len(out) :
                                /\ out[i] = [t |-> "clear", row |-> old[k].PrevRow,
                                             col |-> old[k].PrevCol]
                                /\ RisenY(old[k], id) >= 0 =>
                                      LET cell == BubbleCell([X |-> old[k].X,
                                                              Y |-> RisenY(old[k], id)],
                                                             termConfig)
                                      IN  \E j \in (i + 1)..Len(out) :
                                             out[j] = [t |-> "text", row |-> cell.row,
                                                       col |-> cell.col] ]_vars

\* a tick has dropped the last bubble of a fish and its render output clears
\* the cell the bubble was drawn in, in a tick in which the fish spawned none
C33_Witness ==
    \E id \in fish \cap DOMAIN lastRender :
        /\ ticks = MaxFishTicks
        /\ fishObj[id].Bubbles = << >>
        /\ \E i \in 1..Len(lastRender[id].out) : lastRender[id].out[i].t = "clear"

(***************************************************************************)
(* The unregister model: two sessions are registered and the animation     *)
(* loop ticks; Handler.Close of a session that is not the last one is      *)
(* taken call by call (RemoveConnection, cleanupTerminal, channel.Close),  *)
(* each call being a step of the handler's goroutine between which the     *)
(* loop goroutine may run.  Close of the last session waits for the loop   *)
(* to end and is taken as before.                                          *)
(***************************************************************************)
\* Handler.Close from its start to the return of RemoveConnection, for a
\* session that leaves others behind
RemoveConnectionReturns(h) ==
    /\ hs[h].pc = "input"
    /\ hs[h].running
    /\ ~hs[h].doneClosed
    /\ mu = 0
    /\ hs[h].connID \in ConnIDs
    /\ ConnIDs # {hs[h].connID}
    /\ LET connID == hs[h].connID
           ids == OwnedFish(connID)
           gone == ids \ LoopHeld
       IN  /\ \A id \in ids : createPoofEffect(fishObj[id])
           /\ fish' = fish \ ids
           /\ fishObj' = Drop(fishObj, gone)
           /\ lastRender' = Drop(lastRender, gone)
           /\ connections' = Drop(connections, {connID})
    /\ hs' = [hs EXCEPT ![h].running = FALSE, ![h].doneClosed = TRUE,
                        ![h].pc = "cleanup"]
    /\ UNCHANGED <<mu, termConfig, animationStop, stopClosed, animationWg, fishCounter,
                   connCounter, aquarium, loop, sink, ticks, clickLog, up, stopper, shared>>

\* Handler.Close: h.cleanupTerminal()
CleanupTerminal(h) ==
    /\ hs[h].pc = "cleanup"
    /\ sink' = [sink EXCEPT ![h] = Append(@, "cleanup")]
    /\ hs' = [hs EXCEPT ![h].pc = "exit"]
    /\ UNCHANGED <<mgrVars, loop, ticks, logVars, up, stopper, shared>>

\* Handler.Close: the exit status and h.channel.Close(), after which a
\* channel.Write returns an error
ChannelClose(h) ==
    /\ hs[h].pc = "exit"
    /\ hs' = [hs EXCEPT ![h].pc = "closed", ![h].reader = FALSE, ![h].broken = TRUE]
    /\ UNCHANGED <<mgrVars, loop, sink, ticks, logVars, up, stopper, shared>>

\* Handler.Close of the last session
CloseLast(h) ==
    /\ ConnIDs = {hs[h].connID}
    /\ Close(h)

UnregisterNext ==
    \/ LoopStop
    \/ LoopTick
    \/ UBSnapshot
    \/ UBUpdate
    \/ UBRender
    \/ UBFloor
    \/ UBStatus
    \/ UBWrite
    \/ \E h \in Handlers : RemoveConnectionReturns(h)
    \/ \E h \in Handlers : CleanupTerminal(h)
    \/ \E h \in Handlers : ChannelClose(h)
    \/ \E h \in Handlers : CloseLast(h)
    \/ \E h \in Handlers : CloseReset(h)

UnregisterSpec == BroadcastInit /\ [][UnregisterNext]_vars

\* RemoveConnection of the session of handler h has returned
Unregistered(h) == hs[h].pc \in {"cleanup", "exit", "closed"}

\* C34: No tick output after unregister.  Once RemoveConnection of a session
\* has returned, no step of a tick appends its output to the sink of that
\* session; so no tick output follows the cleanup sequence in a sink.
C34_NoTickAfterUnregister ==
    [][\A h \in Handlers :
          Unregistered(h) =>
              \/ sink'[h] = sink[h]
              \/ sink'[h][Len(sink'[h])] # "tick"]_vars

(***************************************************************************)
(* The race model: two sessions are registered, the animation loop ticks   *)
(* and the sessions click.  Fish.Update runs without the manager lock, so  *)
(* its accesses to f.Bubbles are taken one by one: updateBubbles reads the  *)
(* slice once for its range loop, moves the bubbles in place and collects  *)
(* the kept ones, and then assigns the collected slice to f.Bubbles.  A    *)
(* HandleMouseClick, which takes the lock the tick does not hold, may run  *)
(* between the two.                                                        *)
(***************************************************************************)
\* updateAndBroadcast: fish.Update up to the end of the range loop of
\* updateBubbles
UBUpdateMove ==
    /\ loop.pc = "update"
    /\ \E fid \in loop.todo, spawn \in SpecSpawns :
          LET m == FishMove(fishObj[fid], loop.termConfig, loop.deltaTime, spawn)
              r == updateBubblesFrom(m.Bubbles, 1, loop.deltaTime, << >>,
                                     m.BubblesToClear)
          IN  /\ fishObj' = [fishObj EXCEPT ![fid] =
                               [m EXCEPT !.Bubbles =
                                            [k \in 1..Len(m.Bubbles) |->
                                               [m.Bubbles[k] EXCEPT
                                                  !.Y = @ - BubbleStep * loop.deltaTime]],
                                         !.BubblesToClear = r.toClear]]
              /\ loop' = [loop EXCEPT !.cur = fid, !.todo = @ \ {fid},
                                      !.activeBubbles = r.active, !.pc = "assign"]
    /\ UNCHANGED <<mu, connections, fish, termConfig, animationStop, stopClosed,
                   animationWg, fishCounter, connCounter, aquarium, hs, sink, ticks,
                   logVars, up, stopper, shared>>

\* updateBubbles: f.Bubbles = activeBubbles
UBUpdateAssign ==
    /\ loop.pc = "assign"
    /\ fishObj' = [fishObj EXCEPT ![loop.cur].Bubbles = loop.activeBubbles]
    /\ loop' = [loop EXCEPT !.activeBubbles = << >>, !.pc = "render"]
    /\ UNCHANGED <<mu, connections, fish, termConfig, animationStop, stopClosed,
                   animationWg, fishCounter, connCounter, aquarium, hs, sink, ticks,
                   logVars, up, stopper, shared>>

\* the cells clicked in the race model: for each fish the cell of the
\* middle of its sprite
CentreCells ==
    { << TruncDiv(ToInt(fishObj[id].PosX) + ImagePixelWidth \div 2,
                  termConfig.CellWidth) + 1,
         TruncDiv(ToInt(fishObj[id].PosY) + BobbingOffset(fishObj[id])
                      + ImagePixelHeight \div 2, termConfig.CellHeight) + 1 >> :
         id \in fish }

RaceNext ==
    \/ LoopTick
    \/ UBSnapshot
    \/ UBUpdateMove
    \/ UBUpdateAssign
    \/ UBRender
    \/ UBFloor
    \/ UBStatus
    \/ UBWrite
    \/ \E h \in Handlers, button \in SpecButtons, cell \in CentreCells,
          a \in SpecAngles, jit \in SpecJitters :
          ProcessMouse(h, button, cell[1], cell[2], a, jit)

RaceSpec == BroadcastInit /\ [][RaceNext]_vars

\* C35: Click bubbles are never lost.  No step takes a bubble whose y is not
\* below 0 out of the bubble list of a fish: every such bubble of the list
\* before the step is in the list after it, at its place or moved up.
C35_ClickBubblesKept ==
    [][\A id \in fish :
          \A k \in 1..Len(fishObj[id].Bubbles) :
              fishObj[id].Bubbles[k].Y >= 0 =>
                  \E j \in 1..Len(fishObj'[id].Bubbles) :
                      /\ fishObj'[id].Bubbles[j].X = fishObj[id].Bubbles[k].X
                      /\ fishObj'[id].Bubbles[j].Y <= fishObj[id].Bubbles[k].Y]_vars

\* C36: Images before placements.  In the sink of every session, every tick
\* output comes after the output of uploadImages: no frame of a tick is
\* written to a session before its sprite uploads are complete.
C36_ImagesBeforePlacements ==
    \A h \in Handlers :
        \A k \in 1..Len(sink[h]) :
            sink[h][k] = "tick" => \E j \in 1..(k - 1) : sink[h][j] = "upload"

(***************************************************************************)
(* The shutdown model: sessions start on an empty manager while the        *)
(* shutdown goroutine of main calls Manager.Stop once.  The SSH server     *)
(* does not wait for its connection goroutines, so sessions may start      *)
(* before, during and after Stop.                                          *)
(***************************************************************************)
\* Manager.Stop from the end of its wait (or from its start, when no loop
\* is recorded) to its end: the streams are closed and the state is cleared
StopClear ==
    /\ hs' = [h \in Handlers |->
                IF \E c \in ConnIDs : connections[c].Stream = h
                THEN [hs[h] EXCEPT !.broken = TRUE] ELSE hs[h]]
    /\ fish' = {}
    /\ fishObj' = Drop(fishObj, fish \ LoopHeld)
    /\ lastRender' = Drop(lastRender, fish \ LoopHeld)
    /\ connections' = << >>
    /\ termConfig' = Nil
    /\ fishCounter' = 0
    /\ connCounter' = 0
    /\ stopper' = [stopper EXCEPT !.pc = "done"]

\* Manager.Stop from m.mu.Lock() to the wait for the loop
StopBegin ==
    /\ stopper.pc = "idle"
    /\ mu = 0
    /\ IF animationStop # Nil
       THEN /\ stopClosed' = TRUE
            /\ animationStop' = Nil
            /\ stopper' = [stopper EXCEPT !.pc = "wait"]
            /\ UNCHANGED <<hs, fish, fishObj, lastRender, connections, termConfig,
                           fishCounter, connCounter>>
       ELSE /\ StopClear
            /\ UNCHANGED <<stopClosed, animationStop>>
    /\ UNCHANGED <<mu, animationWg, aquarium, loop, sink, ticks, clickLog, up, shared>>

\* Manager.Stop: case <-done, then the cleanup
StopWaitDone ==
    /\ stopper.pc = "wait"
    /\ animationWg = 0
    /\ mu = 0
    /\ StopClear
    /\ UNCHANGED <<mu, animationStop, stopClosed, animationWg, aquarium, loop, sink,
                   ticks, clickLog, up, shared>>

\* Manager.Stop: case <-time.After(2 * time.Second), then the cleanup.  The
\* two seconds pass while the loop cannot end: it is blocked in a write, or
\* it copied m.animationStop after Stop had set it to nil and waits on a nil
\* channel.
StopTimeout ==
    /\ stopper.pc = "wait"
    /\ animationWg > 0
    /\ \/ loop.pc = "blocked"
       \/ (loop.pc \notin {"none", "init"} /\ loop.stopChan = Nil)
    /\ mu = 0
    /\ StopClear
    /\ UNCHANGED <<mu, animationStop, stopClosed, animationWg, aquarium, loop, sink,
                   ticks, clickLog, up, shared>>

\* an animation loop goroutine that is not followed any more ends
OrphanExit ==
    /\ stopper.orphans > 0
    /\ stopper' = [stopper EXCEPT !.orphans = @ - 1]
    /\ animationWg' = animationWg - 1
    /\ UNCHANGED <<mu, connections, fish, fishObj, termConfig, animationStop,
                   stopClosed, fishCounter, connCounter, aquarium, loop, hs, sink,
                   ticks, logVars, up, shared>>

StopNext ==
    \/ \E h \in Handlers, pty \in PtyDims, floorTile \in FloorTileIDs : Start(h, pty, floorTile)
    \/ \E h \in Handlers : InitStep(h)
    \/ \E h \in Handlers : ReadError(h)
    \/ \E h \in Handlers : CloseReset(h)
    \/ \E h \in Handlers : Stall(h)
    \/ LoopStep
    \/ UBWriteUnblocked
    \/ StopBegin
    \/ StopWaitDone
    \/ StopTimeout
    \/ OrphanExit

StopSpec == Init /\ [][StopNext]_vars

\* C37: Single scheduler.  At most one animation loop goroutine is running:
\* the counter of running loop goroutines (animationWg, raised by
\* StartAnimation and lowered when a loop returns) is never above 1.
C37_SingleScheduler == animationWg <= 1

\* C38: Spawn bounds agree with tick bounds.  Under the capability of the
\* epoch, the usable height NewFish computes equals the usable height
\* Fish.Update computes, and before the first tick every fish lies in
\* [0, canvasWidth - 64] x [0, usableHeight - 36], usableHeight being that
\* of Fish.Update.
C38_SpawnWithinTickBounds ==
    (termConfig # Nil /\ ticks = 0) =>
        /\ NewFishUsableHeight(termConfig.Rows * termConfig.CellHeight,
                               termConfig.CellHeight)
               = UpdateUsableHeight(termConfig)
        /\ \A id \in fish :
              /\ 0 <= fishObj[id].PosX
              /\ fishObj[id].PosX
                    <= (termConfig.Columns * termConfig.CellWidth - ImagePixelWidth) * SubPx
              /\ 0 <= fishObj[id].PosY
              /\ fishObj[id].PosY
                    <= (UpdateUsableHeight(termConfig) - ImagePixelHeight) * SubPx

(***************************************************************************)
(* The Elixir SharedAquarium GenServer (src/unnamed/part_004).  The        *)
(* GenServer handles one message at a time, so every callback is one step. *)
(* shared holds the fields of its state; shared.timeouts are the           *)
(* terminal_detection_timeout messages that Process.send_after has armed   *)
(* and not yet delivered, in the order they were armed, which is the       *)
(* order they are delivered in (all are armed with the same delay);        *)
(* shared.frames counts the :animate messages handled.  A fish is kept as  *)
(* its owner (fish is a map fish_id -> owner_id); the motion of the fish   *)
(* and the text sent to the viewers are left out.                          *)
(***************************************************************************)
MaxViewers == 3
MaxFrames == 1

fish_per_connection == 100

\* terminal_config: :detecting
Detecting == [detecting |-> TRUE]

\* is_map(state.terminal_config)
is_map(c) == c # Nil /\ c # Detecting

\* the timer reference :timer.send_interval returns
TimerRef == [timer |-> TRUE]

\* the capability a viewer reports, and the fallback of the timeout
ReportedConfig == [term_columns |-> 100, term_rows |-> 30, cell_width |-> 10, cell_height |-> 20]
FallbackConfig == [term_columns |-> 80, term_rows |-> 24, cell_width |-> 8, cell_height |-> 16]

\* everything but the GenServer
goVars == <<mu, connections, fish, fishObj, termConfig, animationStop, stopClosed,
            animationWg, fishCounter, connCounter, aquarium, loop, hs, sink,
            ticks, lastRender, clickLog, up, stopper>>

\* add_fish_for_connection: Map.merge(existing_fish, new_fish)
add_fish_for_connection(existing_fish, connection_id, count, fish_counter) ==
    [id \in DOMAIN existing_fish \cup ((fish_counter + 1)..(fish_counter + count)) |->
        IF id \in (fish_counter + 1)..(fish_counter + count)
        THEN connection_id ELSE existing_fish[id]]

\* handle_call({:add_viewer, viewer_pid})
add_viewer ==
    /\ shared.connection_counter < MaxViewers
    /\ LET connection_id == shared.connection_counter + 1
           first == IF shared.viewers = {}
                    THEN [shared EXCEPT !.terminal_config = Detecting,
                                        !.fish_counter = 0,
                                        !.timeouts = Append(@, connection_id)]
                    ELSE IF is_map(shared.terminal_config)
                    THEN [shared EXCEPT
                            !.fish = add_fish_for_connection(@, connection_id,
                                         fish_per_connection, shared.fish_counter),
                            !.fish_counter = @ + fish_per_connection]
                    ELSE shared
       IN  shared' = [first EXCEPT !.viewers = shared.viewers \cup {connection_id},
                                   !.connection_counter = connection_id]
    /\ UNCHANGED goVars

\* handle_cast({:remove_viewer, connection_id})
remove_viewer(connection_id) ==
    /\ connection_id \in shared.viewers
    /\ LET new_viewers == shared.viewers \ {connection_id}
           remaining == { id \in DOMAIN shared.fish : shared.fish[id] # connection_id }
           remaining_fish == [id \in remaining |-> shared.fish[id]]
       IN  shared' = IF new_viewers = {} /\ shared.animation_timer # Nil
                     THEN [shared EXCEPT !.viewers = new_viewers,
                                         !.animation_timer = Nil,
                                         !.fish = << >>,
                                         !.terminal_config = Nil,
                                         !.fish_counter = 0]
                     ELSE [shared EXCEPT !.viewers = new_viewers,
                                         !.fish = remaining_fish]
    /\ UNCHANGED goVars

\* the fish the first detection makes: 100 for each viewer, numbered by the
\* position of the viewer in MapSet.to_list(state.viewers)
RECURSIVE DetectedFish(_, _, _)
DetectedFish(todo, index, acc) ==
    IF todo = {} THEN acc
    ELSE LET c == CHOOSE x \in todo : \A y \in todo : x <= y
         IN  DetectedFish(todo \ {c}, index + 1,
                          add_fish_for_connection(acc, c, fish_per_connection,
                                                  (index - 1) * fish_per_connection))

\* handle_cast({:update_terminal_config, ...}) on the state st
update_terminal_config(st, config) ==
    IF st.terminal_config = Detecting
    THEN [st EXCEPT !.terminal_config = config,
                    !.fish = DetectedFish(st.viewers, 1, << >>),
                    !.animation_timer = TimerRef,
                    !.fish_counter = Cardinality(st.viewers) * fish_per_connection]
    ELSE IF is_map(st.terminal_config)
    THEN [st EXCEPT !.terminal_config = config]
    ELSE st

\* a viewer reports the capability of its terminal
UpdateTerminalConfig ==
    /\ shared.viewers # {}
    /\ shared' = update_terminal_config(shared, ReportedConfig)
    /\ UNCHANGED goVars

\* handle_info({:terminal_detection_timeout, _connection_id}) on the state st
terminal_detection_timeout(st) ==
    IF st.terminal_config = Detecting
    THEN update_terminal_config(st, FallbackConfig)
    ELSE st

\* the oldest armed timeout message is delivered
TerminalDetectionTimeout ==
    /\ shared.timeouts # << >>
    /\ shared' = [terminal_detection_timeout(shared) EXCEPT !.timeouts = Tail(@)]
    /\ UNCHANGED goVars

\* handle_info(:animate), sent by the animation timer
Animate ==
    /\ shared.animation_timer # Nil
    /\ shared.frames < MaxFrames
    /\ shared' = [shared EXCEPT !.frames = @ + 1]
    /\ UNCHANGED goVars

SharedNext ==
    \/ add_viewer
    \/ \E connection_id \in 1..MaxViewers : remove_viewer(connection_id)
    \/ UpdateTerminalConfig
    \/ TerminalDetectionTimeout
    \/ Animate

SharedSpec == Init /\ [][SharedNext]_vars

\* the epoch that armed the oldest pending timeout message has ended: no
\* viewer is left, or a later first viewer has armed a further message
HeadEpochEnded ==
    /\ shared.timeouts # << >>
    /\ (shared.viewers = {} \/ Len(shared.timeouts) > 1)

\* C39: a terminal_detection_timeout message whose epoch has ended before it
\* is delivered has no effect: the step that delivers it changes nothing of
\* the GenServer state: no capability is applied and no animation timer is
\* started.
C39_StaleTimeoutIgnored ==
    [][(HeadEpochEnded /\ shared'.timeouts = Tail(shared.timeouts)) =>
          shared' = [shared EXCEPT !.timeouts = Tail(@)]]_vars

====
